---- MODULE Spec2Model ----
(***************************************************************************)
(* Document-ingestion pipeline of academicAdvisor: the three ingestion     *)
(* scripts (optimized-vectorize, fresh-vectorize, semantic-vectorize).     *)
(* A run lists the bulletin directory, splits every .txt file into chunks, *)
(* requests an embedding per chunk and adds (id, embedding, text,          *)
(* metadata) to a Chroma collection.                                       *)
(*                                                                         *)
(* JavaScript runs one task at a time; a task is suspended only at an      *)
(* await.  Every action below is the completion of one awaited call        *)
(* together with all the synchronous code that runs up to the next await.  *)
(* Strings are sequences of one-character strings.                         *)
(***************************************************************************)
EXTENDS Integers, Sequences, FiniteSets, TLC

\* ---------------------------------------------------------------- bounds
MaxFiles == 4          \* files in the directory
MaxChunks == 2         \* chunks of one file
MaxTotalChunks == 3    \* chunks of all files together
MaxSchedFiles == 7     \* the same two for the runs over long file lists
MaxSchedChunks == 1
MaxRuns == 2           \* runs of the script over one directory
MaxFilesTwice == 2     \* files in the directory of a repeated run
MaxNameParts == 2
MaxTextLen == 4        \* characters of a document, for the text functions
MaxChunkSize == 3      \* chunkSize of splitIntoChunks, besides CHUNK_SIZE
MaxBlocks == 2         \* blocks of a bulletin, for semantic chunking
MaxDocLen == 2200      \* characters of a bulletin
MaxBodyLen == 3        \* characters of a response body of the embedding service
MaxQueryLen == 2       \* characters of a search query
MaxReadChunks == 1     \* chunks of a file, where files may be unreadable
MaxResults == 2        \* documents the store returns for a query
MaxLiveChunks == 2      \* chunks of all files together, for the runs to their end
MaxLoopText == 6       \* characters of a text, for the for loop step by step
MaxLoopLen == 250      \* characters of a bulletin, for the while loop step by step

\* ------------------------------------------------------ program constants
CONCURRENT_FILES == 3
DELAY_MS_OPT == 150
DELAY_MS_FRESH == 300

Scripts == {"optimized", "fresh", "semantic"}

DelayMs(s) == IF s = "fresh" THEN DELAY_MS_FRESH ELSE DELAY_MS_OPT

\* ------------------------------------------------------------- strings
TxtExt == <<".", "t", "x", "t">>

Digits == <<"0", "1", "2", "3", "4", "5", "6", "7", "8", "9">>

RECURSIVE Decimal(_)
Decimal(n) == IF n < 10 THEN <<Digits[n + 1]>>
              ELSE Decimal(n \div 10) \o <<Digits[(n % 10) + 1]>>

Min(a, b) == IF a < b THEN a ELSE b

\* String.prototype.endsWith
EndsWith(s, suf) ==
  /\ Len(s) >= Len(suf)
  /\ SubSeq(s, Len(s) - Len(suf) + 1, Len(s)) = suf

\* String.prototype.replace(pattern, replacement) with a string pattern:
\* only the FIRST occurrence of the pattern is replaced.
Replace(s, pat, rep) ==
  LET occ == {p \in 1..(Len(s) - Len(pat) + 1) : SubSeq(s, p, p + Len(pat) - 1) = pat}
  IN IF occ = {} THEN s
     ELSE LET p == CHOOSE q \in occ : \A r \in occ : q <= r
          IN SubSeq(s, 1, p - 1) \o rep \o SubSeq(s, p + Len(pat), Len(s))

\* variant of Slice that takes the element at index `to` as well
SliceInclusive(s, from, to) == SubSeq(s, from + 1, Min(to + 1, Len(s)))

\* Array.prototype.slice(from, to) with 0-based indices
Slice(s, from, to) == SubSeq(s, from + 1, Min(to, Len(s)))

\* id of chunk i of a file: `${fileName.replace('.txt', '')}_${i}`,
\* `..._chunk_${i}` in the fresh script
ChunkId(s, fileName, i) ==
  Replace(fileName, TxtExt, <<>>)
    \o (IF s = "fresh" THEN <<"_", "c", "h", "u", "n", "k", "_">> ELSE <<"_">>)
    \o Decimal(i)

\* ------------------------------------------------------------ the inputs
\* the bulletin directory: one entry that is no .txt file, then n bulletins
BulletinName(k) == <<"b">> \o Decimal(k) \o TxtExt

Listing(n) == <<<<"n", "o", "t", "e", "s", ".", "m", "d">>>>
                 \o [k \in 1..n |-> BulletinName(k)]

RECURSIVE SumTo(_, _)
SumTo(f, n) == IF n = 0 THEN 0 ELSE f[n] + SumTo(f, n - 1)

VARIABLES
  script,       \* the script being run
  dirExists,    \* the bulletin directory is there
  listing,      \* fs.readdirSync(bulletinPath)
  content,      \* per .txt file: number of chunks its text splits into,
                \* or Unreadable
  collExists,   \* the store holds the collection COLLECTION_NAME
  coll,         \* the entries of the collection
  mpc,          \* the await vectorizeFiles is suspended at
  loopI,        \* vectorizeFiles: loop variable i
  fileBatch,    \* vectorizeFiles: fileBatch
  task,         \* processFile per file: pc, i, successful, failed, wait
  trace,        \* per file: the calls processFile made and their outcomes
  batches,      \* the file batches handed to processFileBatch so far
  totalSuccessful, totalFailed, totalChunks,
  run,          \* number of the current run of the script
  prev,         \* what the previous run recorded
  faulted,      \* a call of the current or an earlier run hit a fault
  idCase,       \* id generation: two (file name, index) pairs and their ids
  cs,           \* chunking: one document and what the text functions make of it
  ec,           \* one call of getEmbedding: the requests sent and its outcome
  sr            \* one request to a search endpoint and the response to it

vars == <<script, dirExists, listing, content, collExists, coll, mpc, loopI,
          fileBatch, task, trace, batches, totalSuccessful, totalFailed,
          totalChunks, run, prev, faulted, idCase, cs, ec, sr>>

inputVars == <<script, dirExists, listing, content, idCase, cs, ec, sr>>

\* fs.readdirSync(...).filter(file => file.endsWith('.txt'))
IsTxt(f) == EndsWith(f, TxtExt)

txtFiles == SelectSeq(listing, IsTxt)

NFiles == Len(txtFiles)

\* the content of a file that fs.readFileSync cannot read
Unreadable == -1

\* chunks.length of file k; the chunk loop is never reached for a file that
\* cannot be read
NChunks(k) == IF content[k] = Unreadable THEN 0 ELSE content[k]

IdleTask == [pc |-> "idle", i |-> 0, successful |-> 0, failed |-> 0, wait |-> 0]

NoPrev == [outcome |-> "none", recorded |-> 0, ids |-> {}, count |-> 0]

NoIds == [a |-> <<>>, i |-> 0, b |-> <<>>, j |-> 0, ida |-> <<>>, idb |-> <<>>,
          made |-> FALSE]

NoCall == [stage |-> "none", status |-> 0, body |-> <<>>, requests |-> 0,
           outcome |-> "none", message |-> <<>>]

NoRequest == [endpoint |-> "none", stage |-> "none", calls |-> 0, queries |-> 0]

NoCase == [kind |-> "none", text |-> <<>>, chunkSize |-> 0, stage |-> "none",
           cleaned |-> <<>>, recleaned |-> <<>>, marks |-> <<>>,
           proposed |-> <<>>, chunks |-> <<>>, prompts |-> <<>>]

\* the first await of vectorizeFiles
FirstAwait(s) == IF s = "fresh" THEN "heartbeat" ELSE "getCollection"

\* the state when the script is started, in a directory of at most maxFiles
\* bulletins that split into at most maxTotal chunks together, against a
\* store whose collection, if it is there, holds one of the given sets of
\* entries; sizes are the contents a file may have
InitFiles(maxFiles, maxTotal, stores, sizes) ==
  /\ script \in Scripts
  /\ dirExists \in BOOLEAN
  /\ \E n \in 0..maxFiles :
       /\ listing = IF dirExists THEN Listing(n) ELSE <<>>
       /\ content \in [1..(IF dirExists THEN n ELSE 0) -> sizes]
  /\ SumTo([k \in DOMAIN content |-> NChunks(k)], Len(content)) <= maxTotal
  /\ collExists \in BOOLEAN
  /\ coll \in stores
  /\ coll # {} => collExists
  /\ mpc = FirstAwait(script)
  /\ loopI = 0
  /\ fileBatch = <<>>
  /\ task = [k \in DOMAIN content |-> IdleTask]
  /\ trace = [k \in DOMAIN content |-> <<>>]
  /\ batches = <<>>
  /\ totalSuccessful = 0
  /\ totalFailed = 0
  /\ totalChunks = 0
  /\ run = 1
  /\ prev = NoPrev
  /\ faulted = FALSE
  /\ idCase = NoIds
  /\ cs = NoCase
  /\ ec = NoCall
  /\ sr = NoRequest

\* the same, every file readable
InitStore(maxFiles, maxTotal, stores) ==
  InitFiles(maxFiles, maxTotal, stores, 0..MaxChunks)

\* the same, the collection holding no entry
InitWith(maxFiles, maxTotal) == InitStore(maxFiles, maxTotal, {{}})

Init == InitWith(MaxFiles, MaxTotalChunks)

\* ------------------------------------------------------------ the store
\* the length of the vectors EMBED_MODEL returns, and the length of the
\* vectors of another embedding model
Dims == {"model", "other"}

\* what collection.add({ids, embeddings, metadatas, documents}) stores
Entry(k, i) == [id |-> ChunkId(script, txtFiles[k], i),
                source |-> txtFiles[k],
                doc |-> <<k, i>>,
                dim |-> "model"]

TestEntry == [id |-> <<"t", "e", "s", "t", "_", "d", "o", "c", "u", "m", "e", "n", "t">>,
              source |-> <<"t", "e", "s", "t">>,
              doc |-> <<0, 0>>,
              dim |-> "model"]

\* an entry that was added with the embedding of another model
OldEntry == [id |-> <<"o", "l", "d", "_", "0">>,
             source |-> <<"o", "l", "d", ".", "t", "x", "t">>,
             doc |-> <<0, 1>>,
             dim |-> "other"]

\* the store takes an embedding only if it is as long as the embeddings the
\* collection holds
Fits(c, e) == \A x \in c : x.dim = e.dim

\* collection.add never stores a second entry under an id the collection
\* already holds
Added(c, e) == IF \E x \in c : x.id = e.id THEN c ELSE c \cup {e}

\* ------------------------------------------------------------ processFile
\* variant of LaunchTask that enters the chunk loop of a document without
\* chunks
LaunchTaskAlways(k) == [IdleTask EXCEPT !.pc = "embed"]

\* variant of LaunchTask in which processFile rejects when the file cannot
\* be read
LaunchTaskReject(k) ==
  IF content[k] = Unreadable THEN [IdleTask EXCEPT !.pc = "rejected"]
  ELSE IF NChunks(k) > 0 THEN [IdleTask EXCEPT !.pc = "embed"]
  ELSE [IdleTask EXCEPT !.pc = "done"]

\* processFile up to its first await: read the file, split it, enter the
\* loop and request the embedding of chunk 0; when the file cannot be read
\* or has no chunk, return
LaunchTask(k) ==
  IF NChunks(k) > 0 THEN [IdleTask EXCEPT !.pc = "embed"]
  ELSE [IdleTask EXCEPT !.pc = "done"]

LaunchTrace(k) == IF NChunks(k) > 0 THEN <<<<"embed", 0>>>> ELSE <<>>

\* the for loop steps to chunk i+1: request its embedding, or return
NextChunk(k, t, tr) ==
  IF t.i + 1 < NChunks(k)
  THEN <<[t EXCEPT !.i = t.i + 1, !.pc = "embed", !.wait = 0],
         Append(tr, <<"embed", t.i + 1>>)>>
  ELSE <<[t EXCEPT !.i = t.i + 1, !.pc = "done", !.wait = 0], tr>>

\* variant of AfterFailure that gives the document up at the first failure
AfterFailureAbort(k, t, tr) ==
  <<[t EXCEPT !.failed = t.failed + 1, !.pc = "done"], tr>>

\* variant of AfterFailure in which the error of the chunk leaves
\* processFile: the promise of the document is rejected
AfterFailureReject(k, t, tr) ==
  <<[t EXCEPT !.failed = t.failed + 1, !.pc = "rejected"], tr>>

\* the catch block of the chunk loop
AfterFailure(k, t, tr) ==
  LET f == [t EXCEPT !.failed = t.failed + 1]
  IN IF script = "fresh"
     THEN <<[f EXCEPT !.pc = "delay", !.wait = DelayMs(script) * 2], tr>>
     ELSE NextChunk(k, f, tr)

\* variant of AfterSuccess that does not await the delay
AfterSuccessNoWait(k, t, tr) ==
  NextChunk(k, [t EXCEPT !.successful = t.successful + 1], tr)

\* after collection.add resolved: count it and start the delay
AfterSuccess(k, t, tr) ==
  <<[t EXCEPT !.successful = t.successful + 1, !.pc = "delay",
              !.wait = DelayMs(script)], tr>>

SetTask(k, pair) ==
  /\ task' = [task EXCEPT ![k] = pair[1]]
  /\ trace' = [trace EXCEPT ![k] = pair[2]]

mainVars == <<mpc, loopI, fileBatch, batches, totalSuccessful, totalFailed,
              totalChunks, run, prev>>

\* variant of EmbedReturn that goes on to collection.add after a failed
\* embedding call
EmbedReturnSwallow(k, ok) ==
  /\ task[k].pc = "embed"
  /\ faulted' = (faulted \/ ~ok)
  /\ SetTask(k, <<[task[k] EXCEPT !.pc = "add"],
                  trace[k] \o << <<IF ok THEN "embedOk" ELSE "embedFail", task[k].i>>,
                                 <<"add", task[k].i>> >> >>)
  /\ UNCHANGED <<inputVars, collExists, coll, mainVars>>

\* await getEmbedding(chunk) returns or throws
EmbedReturn(k, ok) ==
  /\ task[k].pc = "embed"
  /\ faulted' = (faulted \/ ~ok)
  /\ IF ok
     THEN SetTask(k, <<[task[k] EXCEPT !.pc = "add"],
                       trace[k] \o << <<"embedOk", task[k].i>>, <<"add", task[k].i>> >> >>)
     ELSE SetTask(k, AfterFailure(k, task[k],
                       Append(trace[k], <<"embedFail", task[k].i>>)))
  /\ UNCHANGED <<inputVars, collExists, coll, mainVars>>

\* await collection.add(...) returns or throws
AddReturn(k, ok) ==
  /\ task[k].pc = "add"
  /\ faulted' = (faulted \/ ~ok)
  /\ IF ok /\ Fits(coll, Entry(k, task[k].i))
     THEN /\ coll' = Added(coll, Entry(k, task[k].i))
          /\ SetTask(k, AfterSuccess(k, task[k],
                          Append(trace[k], <<"addOk", task[k].i>>)))
     ELSE /\ coll' = coll
          /\ SetTask(k, AfterFailure(k, task[k],
                          Append(trace[k], <<"addFail", task[k].i>>)))
  /\ UNCHANGED <<inputVars, collExists, mainVars>>

\* await new Promise(resolve => setTimeout(resolve, ms)) returns
DelayReturn(k) ==
  /\ task[k].pc = "delay"
  /\ SetTask(k, NextChunk(k, task[k], Append(trace[k], <<"delay", task[k].wait>>)))
  /\ UNCHANGED <<inputVars, collExists, coll, mainVars, faulted>>

\* --------------------------------------------------------- vectorizeFiles
\* the head of the batch loop at i = i0, with the totals ts, tf, tc: hand
\* the next batch to processFileBatch and await it, or leave the loop
BatchOf(i0) == Slice(txtFiles, i0, i0 + CONCURRENT_FILES)

LoopHead(i0, ts, tf, tc) ==
  /\ totalSuccessful' = ts
  /\ totalFailed' = tf
  /\ totalChunks' = tc
  /\ IF i0 < NFiles
     THEN /\ loopI' = i0
          /\ fileBatch' = BatchOf(i0)
          /\ batches' = Append(batches, BatchOf(i0))
          /\ task' = [k \in DOMAIN task |->
                        IF k \in (i0 + 1)..(i0 + Len(BatchOf(i0)))
                        THEN LaunchTask(k) ELSE task[k]]
          /\ trace' = [k \in DOMAIN trace |->
                        IF k \in (i0 + 1)..(i0 + Len(BatchOf(i0)))
                        THEN LaunchTrace(k) ELSE trace[k]]
          /\ mpc' = "await"
     ELSE /\ mpc' = IF script = "semantic" THEN "sampleQuery" ELSE "done"
          /\ UNCHANGED <<loopI, fileBatch, batches, task, trace>>

\* the run fails: vectorizeFiles rejects and the .catch handler reports
Abort(how) ==
  /\ mpc' = how
  /\ UNCHANGED <<loopI, fileBatch, batches, task, trace, totalSuccessful,
                 totalFailed, totalChunks>>

\* optimized, semantic: the collection is there; list the directory and
\* start the batch loop
ListFiles ==
  IF dirExists THEN LoopHead(0, 0, 0, 0) ELSE Abort("error")

\* await client.getCollection(...) returns or throws; on a throw the catch
\* block calls client.createCollection
GetCollectionReturn(ok) ==
  /\ mpc = "getCollection"
  /\ faulted' = (faulted \/ ~ok)
  /\ IF ok /\ collExists
     THEN ListFiles
     ELSE Abort("createCollection")
  /\ UNCHANGED <<inputVars, collExists, coll, run, prev>>

\* await client.createCollection(...) returns or throws; it throws when
\* the collection exists
CreateCollectionReturn(ok) ==
  /\ mpc = "createCollection"
  /\ faulted' = (faulted \/ ~ok)
  /\ IF ok /\ ~collExists
     THEN /\ collExists' = TRUE
          /\ IF script = "fresh" THEN Abort("testEmbed") ELSE ListFiles
     ELSE /\ collExists' = collExists
          /\ Abort("error")
  /\ UNCHANGED <<inputVars, coll, run, prev>>

BatchKeys == (loopI + 1)..(loopI + Len(fileBatch))

\* results.forEach(result => { total... += result.... })
ResultsSuccessful ==
  SumTo([j \in 1..Len(fileBatch) |-> task[loopI + j].successful], Len(fileBatch))

\* variant of ResultsFailed that takes the last result only
ResultsFailedLast == task[loopI + Len(fileBatch)].failed

ResultsFailed ==
  SumTo([j \in 1..Len(fileBatch) |-> task[loopI + j].failed], Len(fileBatch))

\* variant of ResultsChunks that counts the chunks that were added
ResultsChunksAdded ==
  SumTo([j \in 1..Len(fileBatch) |-> task[loopI + j].successful], Len(fileBatch))

\* semantic: the sum of result.totalChunks
ResultsChunks ==
  SumTo([j \in 1..Len(fileBatch) |-> NChunks(loopI + j)], Len(fileBatch))

\* variant of BatchResume that does not await the tasks of the batch
BatchResumeNoWait ==
  /\ mpc = "await"
  /\ script # "fresh"
  /\ LoopHead(loopI + CONCURRENT_FILES,
              totalSuccessful + ResultsSuccessful,
              totalFailed + ResultsFailed,
              IF script = "semantic" THEN totalChunks + ResultsChunks
              ELSE totalChunks)
  /\ UNCHANGED <<inputVars, collExists, coll, run, prev, faulted>>

\* await processFileBatch(...) returns: Promise.all resolved; add the
\* results to the totals and go round the loop
BatchResume ==
  /\ mpc = "await"
  /\ script # "fresh"
  /\ \A k \in BatchKeys : task[k].pc = "done"
  /\ LoopHead(loopI + CONCURRENT_FILES,
              totalSuccessful + ResultsSuccessful,
              totalFailed + ResultsFailed,
              IF script = "semantic" THEN totalChunks + ResultsChunks
              ELSE totalChunks)
  /\ UNCHANGED <<inputVars, collExists, coll, run, prev, faulted>>

\* semantic: await collection.query(...) of the metadata check
SampleQueryReturn(ok) ==
  /\ mpc = "sampleQuery"
  /\ faulted' = (faulted \/ ~ok)
  /\ Abort("done")
  /\ UNCHANGED <<inputVars, collExists, coll, run, prev>>

\* fresh: await client.heartbeat()
HeartbeatReturn(ok) ==
  /\ mpc = "heartbeat"
  /\ faulted' = (faulted \/ ~ok)
  /\ Abort(IF ok THEN "createCollection" ELSE "returned")
  /\ UNCHANGED <<inputVars, collExists, coll, run, prev>>

\* fresh: await getEmbedding(testText)
TestEmbedReturn(ok) ==
  /\ mpc = "testEmbed"
  /\ faulted' = (faulted \/ ~ok)
  /\ Abort(IF ok THEN "testAdd" ELSE "returned")
  /\ UNCHANGED <<inputVars, collExists, coll, run, prev>>

\* fresh: await collection.add of the test document
TestAddReturn(ok) ==
  /\ mpc = "testAdd"
  /\ faulted' = (faulted \/ ~ok)
  /\ coll' = IF ok THEN Added(coll, TestEntry) ELSE coll
  /\ Abort(IF ok THEN "testCount" ELSE "returned")
  /\ UNCHANGED <<inputVars, collExists, run, prev>>

\* fresh: await collection.count(); then find the files and process the
\* first one
TestCountReturn(ok) ==
  /\ mpc = "testCount"
  /\ faulted' = (faulted \/ ~ok)
  /\ IF ok /\ dirExists /\ NFiles > 0
     THEN /\ mpc' = "await"
          /\ task' = [task EXCEPT ![1] = LaunchTask(1)]
          /\ trace' = [trace EXCEPT ![1] = LaunchTrace(1)]
          /\ UNCHANGED <<loopI, fileBatch, batches, totalSuccessful,
                         totalFailed, totalChunks>>
     ELSE Abort("returned")
  /\ UNCHANGED <<inputVars, collExists, coll, run, prev>>

\* fresh: await processFile(filePath, collection) returns
FirstFileReturn ==
  /\ mpc = "await"
  /\ script = "fresh"
  /\ task[1].pc = "done"
  /\ Abort("done")
  /\ UNCHANGED <<inputVars, collExists, coll, run, prev, faulted>>

\* ------------------------------------------------------------------ runs
Ended == mpc \in {"done", "error", "returned"}

\* the ids the run asked the store to add
IssuedIds ==
  UNION {{ChunkId(script, txtFiles[k], trace[k][n][2]) :
            n \in {m \in DOMAIN trace[k] : trace[k][m][1] = "add"}} :
         k \in DOMAIN trace}

\* the successes the run recorded
Recorded ==
  IF script = "fresh"
  THEN (IF NFiles > 0 THEN task[1].successful ELSE 0)
  ELSE totalSuccessful

\* the script is started again, against the same store and directory
NextRun ==
  /\ Ended
  /\ run < MaxRuns
  /\ run' = run + 1
  /\ prev' = [outcome |-> mpc, recorded |-> Recorded, ids |-> IssuedIds,
              count |-> Cardinality(coll)]
  /\ mpc' = FirstAwait(script)
  /\ loopI' = 0
  /\ fileBatch' = <<>>
  /\ task' = [k \in DOMAIN task |-> IdleTask]
  /\ trace' = [k \in DOMAIN trace |-> <<>>]
  /\ batches' = <<>>
  /\ totalSuccessful' = 0
  /\ totalFailed' = 0
  /\ totalChunks' = 0
  /\ UNCHANGED <<inputVars, collExists, coll, faulted>>

Next ==
  \/ \E k \in DOMAIN task : \E ok \in BOOLEAN : EmbedReturn(k, ok)
  \/ \E k \in DOMAIN task : \E ok \in BOOLEAN : AddReturn(k, ok)
  \/ \E k \in DOMAIN task : DelayReturn(k)
  \/ \E ok \in BOOLEAN : GetCollectionReturn(ok)
  \/ \E ok \in BOOLEAN : CreateCollectionReturn(ok)
  \/ BatchResume
  \/ \E ok \in BOOLEAN : SampleQueryReturn(ok)
  \/ \E ok \in BOOLEAN : HeartbeatReturn(ok)
  \/ \E ok \in BOOLEAN : TestEmbedReturn(ok)
  \/ \E ok \in BOOLEAN : TestAddReturn(ok)
  \/ \E ok \in BOOLEAN : TestCountReturn(ok)
  \/ FirstFileReturn

Spec == Init /\ [][Next]_vars

\* runs over long lists of short files
InitSched == InitWith(MaxSchedFiles, MaxSchedChunks)

SpecSched == InitSched /\ [][Next]_vars

\* the script run MaxRuns times over the same directory and store
InitTwice ==
  /\ InitWith(MaxFilesTwice, MaxTotalChunks)
  /\ ~collExists

NextTwice == Next \/ NextRun

SpecTwice == InitTwice /\ [][NextTwice]_vars

\* the script started against a store whose collection may hold an entry
\* of another embedding model
InitDim == InitStore(MaxFiles, MaxTotalChunks, {{}, {OldEntry}})

SpecDim == InitDim /\ [][Next]_vars

\* the script started in a directory where some files cannot be read
InitRead ==
  InitFiles(MaxFiles, MaxTotalChunks, {{}}, {Unreadable} \cup 0..MaxReadChunks)

SpecRead == InitRead /\ [][Next]_vars

TypeOK ==
  /\ mpc \in {"heartbeat", "getCollection", "createCollection", "testEmbed",
              "testAdd", "testCount", "await", "sampleQuery", "done",
              "error", "returned"}
  /\ \A k \in DOMAIN task : task[k].pc \in {"idle", "embed", "add", "delay", "done"}

\* ------------------------------------------------------- id generation
\* file names put together from letters and ".txt" segments, all of them
\* ending in ".txt"
NameParts == {<<"a">>, <<"b">>, TxtExt}

RECURSIVE Stems(_)
Stems(n) == IF n = 0 THEN {<<>>}
            ELSE Stems(n - 1) \cup {s \o q : s \in Stems(n - 1), q \in NameParts}

FileNames == {s \o TxtExt : s \in Stems(MaxNameParts)}

InitIds ==
  /\ script \in {"optimized", "fresh"}
  /\ dirExists = FALSE
  /\ listing = <<>>
  /\ content = <<>>
  /\ collExists = FALSE
  /\ coll = {}
  /\ mpc = "done"
  /\ loopI = 0
  /\ fileBatch = <<>>
  /\ task = <<>>
  /\ trace = <<>>
  /\ batches = <<>>
  /\ totalSuccessful = 0
  /\ totalFailed = 0
  /\ totalChunks = 0
  /\ run = 1
  /\ prev = NoPrev
  /\ faulted = FALSE
  /\ \E a \in FileNames, b \in FileNames, i \in 0..MaxChunks, j \in 0..MaxChunks :
       idCase = [NoIds EXCEPT !.a = a, !.i = i, !.b = b, !.j = j]
  /\ cs = NoCase
  /\ ec = NoCall
  /\ sr = NoRequest

\* processFile computes the id of chunk i of file a and of chunk j of file b
MakeIds ==
  /\ ~idCase.made
  /\ idCase' = [idCase EXCEPT !.ida = ChunkId(script, idCase.a, idCase.i),
                              !.idb = ChunkId(script, idCase.b, idCase.j),
                              !.made = TRUE]
  /\ UNCHANGED <<script, dirExists, listing, content, collExists, coll, mpc,
                 loopI, fileBatch, task, trace, batches, totalSuccessful,
                 totalFailed, totalChunks, run, prev, faulted, cs, ec, sr>>

NextIds == MakeIds

SpecIds == InitIds /\ [][NextIds]_vars

\* ------------------------------------------------------------ characters
\* A text is a tuple of UTF-16 code units, each written as a string: the
\* character itself for \x20-\x7E (a name for the quote, the backslash and
\* the backtick), and a name for the others.
Upper ==
  {"A", "B", "C", "D", "E", "F", "G", "H", "I", "J", "K", "L", "M",
   "N", "O", "P", "Q", "R", "S", "T", "U", "V", "W", "X", "Y", "Z"}

Lower ==
  {"a", "b", "c", "d", "e", "f", "g", "h", "i", "j", "k", "l", "m",
   "n", "o", "p", "q", "r", "s", "t", "u", "v", "w", "x", "y", "z"}

Digit == {"0", "1", "2", "3", "4", "5", "6", "7", "8", "9"}

Punct ==
  {"!", "QUOTE", "#", "$", "%", "&", "'", "(", ")", "*", "+", ",", "-",
   ".", "/", ":", ";", "<", "=", ">", "?", "@", "[", "BACKSLASH", "]", "^",
   "_", "BACKTICK", "{", "|", "}", "~"}

\* the range \x20-\x7E of the first replace of cleanText
Ascii20to7E == Upper \cup Lower \cup Digit \cup Punct \cup {" "}

\* \s of a regular expression, and what String.prototype.trim removes
WhiteSpace == {" ", "TAB", "LF", "CR", "VT", "FF", "NBSP"}

IsSpace(c) == c \in WhiteSpace

\* \w of a regular expression
IsWord(c) == c \in Upper \cup Lower \cup Digit \cup {"_"}

\* ---------------------------------------------------------- text functions
\* String.prototype.substring(from, to) with 0 <= from <= to
Substring(s, from, to) == SubSeq(s, from + 1, Min(to, Len(s)))

RECURSIVE TrimStart(_)
TrimStart(s) == IF s # <<>> /\ IsSpace(s[1]) THEN TrimStart(Tail(s)) ELSE s

RECURSIVE TrimEnd(_)
TrimEnd(s) == IF s # <<>> /\ IsSpace(s[Len(s)])
              THEN TrimEnd(SubSeq(s, 1, Len(s) - 1)) ELSE s

\* String.prototype.trim
Trim(s) == TrimEnd(TrimStart(s))

\* the first replace of cleanText: a code unit outside \x20-\x7E, CR, LF,
\* TAB becomes a space
ReplaceNonPrintable(s) ==
  [i \in DOMAIN s |-> IF s[i] \in Ascii20to7E \cup {"CR", "LF", "TAB"}
                      THEN s[i] ELSE " "]

Kept(c) == c # ""

\* the second replace of cleanText: the first character of a run of whitespace becomes
\* a space and the rest of the run goes
CollapseWhiteSpace(s) ==
  SelectSeq([i \in DOMAIN s |->
               IF ~IsSpace(s[i]) THEN s[i]
               ELSE IF i > 1 /\ IsSpace(s[i - 1]) THEN "" ELSE " "],
            Kept)

\* cleanText without the final trim
cleanTextNoTrim(text) == CollapseWhiteSpace(ReplaceNonPrintable(text))

cleanText(text) == Trim(CollapseWhiteSpace(ReplaceNonPrintable(text)))

CHUNK_SIZE == 500

NonEmpty(s) == s # <<>>

\* only the strides that are chunkSize long
StridesFloor(length, chunkSize) == length \div chunkSize

\* the strides the for loop of splitIntoChunks visits: i = 0, chunkSize, ...
\* while i < length
Strides(length, chunkSize) == (length + chunkSize - 1) \div chunkSize

\* splitIntoChunks whose strides overlap by one character
splitIntoChunksOverlap(text, chunkSize) ==
  LET sanitized == cleanText(text)
      all == [k \in 1..Strides(Len(sanitized), chunkSize) |->
                Trim(Substring(sanitized, (k - 1) * chunkSize,
                               k * chunkSize + 1))]
  IN SelectSeq(all, NonEmpty)

\* splitIntoChunks(text, chunkSize) of the optimized and the fresh script
splitIntoChunks(text, chunkSize) ==
  LET sanitized == cleanText(text)
      all == [k \in 1..Strides(Len(sanitized), chunkSize) |->
                Trim(Substring(sanitized, (k - 1) * chunkSize, k * chunkSize))]
  IN SelectSeq(all, NonEmpty)

MAX_CHUNKS == 5

NonBlank(s) == Trim(s) # <<>>

\* the chunking loop of processFile of the simplified script: strides of the
\* raw content, untrimmed, the first MAX_CHUNKS that are not blank
SimpleChunks(fileContent) ==
  LET all == [k \in 1..Strides(Len(fileContent), CHUNK_SIZE) |->
                Substring(fileContent, (k - 1) * CHUNK_SIZE, k * CHUNK_SIZE)]
  IN Slice(SelectSeq(all, NonBlank), 0, MAX_CHUNKS)

\* ------------------------------------------------------ semantic chunking
\* A regular expression is modelled by the operator that gives, for a text s
\* and a position p (1-based), the position after the match that exec finds
\* at p, or 0 when there is none at p.
RECURSIVE SkipSpace(_, _)
SkipSpace(s, q) == IF q <= Len(s) /\ IsSpace(s[q]) THEN SkipSpace(s, q + 1) ELSE q

RECURSIVE SkipLower(_, _)
SkipLower(s, q) == IF q <= Len(s) /\ s[q] \in Lower THEN SkipLower(s, q + 1) ELSE q

RECURSIVE SkipDigit(_, _)
SkipDigit(s, q) == IF q <= Len(s) /\ s[q] \in Digit THEN SkipDigit(s, q + 1) ELSE q

RECURSIVE SkipUpper(_, _)
SkipUpper(s, q) == IF q <= Len(s) /\ s[q] \in Upper THEN SkipUpper(s, q + 1) ELSE q

At(s, q) == IF q \in DOMAIN s THEN s[q] ELSE ""

\* the position of the first "." after position q, 0 when there is none
FirstDot(s, q) ==
  LET dots == {i \in (q + 1)..Len(s) : s[i] = "."}
  IN IF dots = {} THEN 0 ELSE CHOOSE i \in dots : \A j \in dots : i <= j

\* coursePattern: \b[A-Z]{2,4}\s+\d{1,3}[A-Z]?\.?\s+[^.]+\.\s+
\* Every quantified part is followed by a part that matches none of its
\* characters, except \s+[^.]+, where the title may begin with whitespace
\* that \s+ gives back: so each part takes its whole run.
CourseEnd(s, p) ==
  LET q1 == SkipUpper(s, p)
      q2 == SkipSpace(s, q1)
      q3 == SkipDigit(s, q2)
      q4 == IF At(s, q3) \in Upper THEN q3 + 1 ELSE q3
      q5 == IF At(s, q4) = "." THEN q4 + 1 ELSE q4
      d  == FirstDot(s, q5)
      e  == SkipSpace(s, d + 1)
  IN IF /\ (p = 1 \/ ~IsWord(At(s, p - 1)))
        /\ q1 - p \in 2..4
        /\ q2 > q1
        /\ q3 - q2 \in 1..3
        /\ IsSpace(At(s, q5))
        /\ d >= q5 + 2
        /\ e > d + 1
     THEN e ELSE 0

\* (?:\n|\r\n)
NewlineEnd(s, p) ==
  IF At(s, p) = "LF" THEN p + 1
  ELSE IF At(s, p) = "CR" /\ At(s, p + 1) = "LF" THEN p + 2
  ELSE 0

\* [A-Z][a-z]+\s+
WordEnd(s, q) ==
  LET l == SkipLower(s, q + 1)
      e == SkipSpace(s, l)
  IN IF At(s, q) \in Upper /\ l > q + 1 /\ e > l THEN e ELSE 0

Keywords ==
  <<<<"R", "e", "q", "u", "i", "r", "e", "m", "e", "n", "t", "s">>,
    <<"I", "n", "f", "o", "r", "m", "a", "t", "i", "o", "n">>,
    <<"P", "o", "l", "i", "c", "y">>,
    <<"C", "o", "u", "r", "s", "e", "s">>,
    <<"P", "r", "o", "g", "r", "a", "m">>,
    <<"M", "a", "j", "o", "r">>,
    <<"M", "i", "n", "o", "r">>,
    <<"C", "o", "n", "c", "e", "n", "t", "r", "a", "t", "i", "o", "n">>>>

StartsAt(s, q, w) == q + Len(w) - 1 <= Len(s) /\ SubSeq(s, q, q + Len(w) - 1) = w

\* (?:Requirements|Information|...): the first alternative that matches
KeywordEnd(s, q) ==
  LET hits == {k \in DOMAIN Keywords : StartsAt(s, q, Keywords[k])}
  IN IF hits = {} THEN 0
     ELSE q + Len(Keywords[CHOOSE k \in hits : \A j \in hits : k <= j])

\* (?:[A-Z][a-z]+\s+)* followed by a keyword, as many words as possible
RECURSIVE WordsThenKeyword(_, _)
WordsThenKeyword(s, q) ==
  LET w == WordEnd(s, q)
      more == IF w = 0 THEN 0 ELSE WordsThenKeyword(s, w)
  IN IF more # 0 THEN more ELSE KeywordEnd(s, q)

\* sectionPattern: (?:\n|\r\n)(?:[A-Z][a-z]+\s+)+(?:Requirements|...)
SectionEnd(s, p) ==
  LET n == NewlineEnd(s, p)
      w == IF n = 0 THEN 0 ELSE WordEnd(s, n)
  IN IF w = 0 THEN 0 ELSE WordsThenKeyword(s, w)

\* the class [\s...\-*] of bulletinPattern; the source holds the three code
\* units U+00E2 U+20AC U+00A2 between \s and \-
BulletClass == WhiteSpace \cup {"E2", "20AC", "A2", "-", "*"}

RECURSIVE SkipBullet(_, _)
SkipBullet(s, q) ==
  IF q <= Len(s) /\ s[q] \in BulletClass THEN SkipBullet(s, q + 1) ELSE q

\* bulletinPattern: (?:\n|\r\n)[\s...\-*]+([A-Z])
BulletinEnd(s, p) ==
  LET n == NewlineEnd(s, p)
      b == IF n = 0 THEN 0 ELSE SkipBullet(s, n)
  IN IF n # 0 /\ b > n /\ At(s, b) \in Upper THEN b + 1 ELSE 0

\* combinedPattern: (course|section|bulletin), the first that matches at p
CombinedEnd(s, p) ==
  IF CourseEnd(s, p) # 0 THEN CourseEnd(s, p)
  ELSE IF SectionEnd(s, p) # 0 THEN SectionEnd(s, p)
  ELSE BulletinEnd(s, p)

\* the while loop over regex.exec: match.index (0-based) of the successive
\* matches, each search starting where the match before ended
RECURSIVE MatchIndexes(_, _)
MatchIndexes(s, from) ==
  LET hits == {p \in from..Len(s) : CombinedEnd(s, p) # 0}
  IN IF hits = {} THEN <<>>
     ELSE LET p == CHOOSE q \in hits : \A r \in hits : q <= r
          IN <<p - 1>> \o MatchIndexes(s, CombinedEnd(s, p))

MinGap == 50

PushText(chunks, t) == IF Len(t) > 0 THEN Append(chunks, t) ELSE chunks

\* the body of the while loop for the matches k.., then the final chunk
RECURSIVE SplitAt(_, _, _, _, _)
SplitAt(s, m, k, lastIndex, chunks) ==
  IF k > Len(m)
  THEN IF lastIndex < Len(s)
       THEN PushText(chunks, Trim(Substring(s, lastIndex, Len(s))))
       ELSE chunks
  ELSE SplitAt(s, m, k + 1, m[k],
               IF m[k] - lastIndex > MinGap
               THEN PushText(chunks, Trim(Substring(s, lastIndex, m[k])))
               ELSE chunks)

minChunkSize == 100

maxChunkSize == 2000

PushChunk(processed, c) ==
  IF Len(c) >= minChunkSize THEN Append(processed, c) ELSE processed

\* the merge loop that keeps a short currentChunk when the next chunk does
\* not fit
RECURSIVE MergeKeepShort(_, _, _, _)
MergeKeepShort(chunks, k, currentChunk, processed) ==
  IF k > Len(chunks) THEN PushChunk(processed, currentChunk)
  ELSE IF Len(currentChunk) + Len(chunks[k]) <= maxChunkSize
       THEN MergeKeepShort(chunks, k + 1,
                  currentChunk \o (IF currentChunk # <<>> THEN <<" ">> ELSE <<>>)
                               \o chunks[k],
                  processed)
       ELSE MergeKeepShort(chunks, k + 1, chunks[k], Append(processed, currentChunk))

\* the merge loop over chunks k.., then the last push
RECURSIVE Merge(_, _, _, _)
Merge(chunks, k, currentChunk, processed) ==
  IF k > Len(chunks) THEN PushChunk(processed, currentChunk)
  ELSE IF Len(currentChunk) + Len(chunks[k]) <= maxChunkSize
       THEN Merge(chunks, k + 1,
                  currentChunk \o (IF currentChunk # <<>> THEN <<" ">> ELSE <<>>)
                               \o chunks[k],
                  processed)
       ELSE Merge(chunks, k + 1, chunks[k], PushChunk(processed, currentChunk))

\* splitIntoSemanticChunks: the match indexes of the while loop, the chunks
\* it pushes and the chunks the merge loop makes of them
SemanticRun(text) ==
  LET cleanedText == cleanText(text)
      m == MatchIndexes(cleanedText, 1)
      chunks == SplitAt(cleanedText, m, 1, 0, <<>>)
      processedChunks == Merge(chunks, 1, <<>>, <<>>)
  IN [marks |-> m, proposed |-> chunks, chunks |-> processedChunks]

\* splitIntoSemanticChunks: the text of the chunks it returns
splitIntoSemanticChunks(text) == SemanticRun(text).chunks

\* ------------------------------------------------- the text functions run
\* The documents the text functions are run on: every text of at most
\* MaxTextLen characters of TextAlphabet, words of x separated by single
\* spaces, and bulletins put together from at most MaxBlocks blocks (a
\* course entry, a section heading, a list item, plain text).
TextAlphabet == {"a", "B", " ", "LF", "E9"}

SmallTexts == UNION {[1..n -> TextAlphabet] : n \in 0..MaxTextLen}

Spaced(length, w) ==
  [i \in 1..length |-> IF w > 0 /\ i % w = 0 /\ i < length THEN " " ELSE "x"]

BigTexts == {Spaced(n, w) : n \in {1000, 1300, 1501}, w \in {0, 7, 250, 500, 501}}

Xs(n) == [i \in 1..n |-> "x"]

CourseLens == {30, 50, 51, 101, 1001, 2002}

BlockKinds == [kind : {"course"}, len : CourseLens]
              \cup [kind : {"section", "bullet", "plain"}, len : {60}]

\* the text of a block, b.len characters
BlockText(b) ==
  CASE b.kind = "course" ->
         <<"C", "S", " ", "1", " ", "T", ".", " ">> \o Xs(b.len - 9) \o <<" ">>
    [] b.kind = "section" ->
         <<"LF", "D", "e", "g", "r", "e", "e", " ", "R", "e", "q", "u", "i",
           "r", "e", "m", "e", "n", "t", "s", " ">> \o Xs(b.len - 23) \o <<".", " ">>
    [] b.kind = "bullet" ->
         <<"LF", "-", " ", "I", "t", "e", "m", " ">> \o Xs(b.len - 10) \o <<".", " ">>
    [] OTHER -> Xs(b.len - 2) \o <<".", " ">>

RECURSIVE DocLen(_)
DocLen(d) == IF d = <<>> THEN 0 ELSE Head(d).len + DocLen(Tail(d))

RECURSIVE DocText(_)
DocText(d) == IF d = <<>> THEN <<>> ELSE BlockText(Head(d)) \o DocText(Tail(d))

Bulletins ==
  {DocText(d) : d \in {e \in UNION {[1..n -> BlockKinds] : n \in 0..MaxBlocks} :
                         DocLen(e) <= MaxDocLen}}

\* the texts the scripts hand to getEmbedding as they are: testDocuments and
\* queryText of the simplified script, testText of the fresh script
testDocuments ==
  {<<"I", "n", "t", "r", "o", "d", "u", "c", "t", "i", "o", "n", " ", "t",
      "o", " ", "C", "o", "m", "p", "u", "t", "e", "r", " ", "S", "c", "i",
      "e", "n", "c", "e", " ", "i", "s", " ", "a", " ", "f", "o", "u", "n",
      "d", "a", "t", "i", "o", "n", "a", "l", " ", "c", "o", "u", "r", "s",
      "e", " ", "f", "o", "r", " ", "a", "l", "l", " ", "c", "o", "m", "p",
      "u", "t", "i", "n", "g", " ", "d", "i", "s", "c", "i", "p", "l", "i",
      "n", "e", "s", ".">>,
   <<"A", "r", "t", "i", "f", "i", "c", "i", "a", "l", " ", "I", "n", "t",
      "e", "l", "l", "i", "g", "e", "n", "c", "e", " ", "a", "n", "d", " ",
      "M", "a", "c", "h", "i", "n", "e", " ", "L", "e", "a", "r", "n", "i",
      "n", "g", " ", "a", "r", "e", " ", "t", "r", "a", "n", "s", "f", "o",
      "r", "m", "i", "n", "g", " ", "m", "a", "n", "y", " ", "i", "n", "d",
      "u", "s", "t", "r", "i", "e", "s", ".">>,
   <<"W", "e", "b", " ", "D", "e", "v", "e", "l", "o", "p", "m", "e", "n",
      "t", " ", "w", "i", "t", "h", " ", "J", "a", "v", "a", "S", "c", "r",
      "i", "p", "t", " ", "a", "n", "d", " ", "R", "e", "a", "c", "t", " ",
      "i", "s", " ", "p", "o", "p", "u", "l", "a", "r", " ", "f", "o", "r",
      " ", "c", "r", "e", "a", "t", "i", "n", "g", " ", "m", "o", "d", "e",
      "r", "n", " ", "w", "e", "b", " ", "a", "p", "p", "l", "i", "c", "a",
      "t", "i", "o", "n", "s", ".">>,
   <<"A", "l", "g", "o", "r", "i", "t", "h", "m", "s", " ", "a", "n", "d",
      " ", "D", "a", "t", "a", " ", "S", "t", "r", "u", "c", "t", "u", "r",
      "e", "s", " ", "a", "r", "e", " ", "e", "s", "s", "e", "n", "t", "i",
      "a", "l", " ", "k", "n", "o", "w", "l", "e", "d", "g", "e", " ", "f",
      "o", "r", " ", "p", "r", "o", "g", "r", "a", "m", "m", "e", "r", "s",
      ".">>}

queryText ==
  <<"c", "o", "m", "p", "u", "t", "e", "r", " ", "p", "r", "o", "g", "r",
    "a", "m", "m", "i", "n", "g">>

testText ==
  <<"T", "h", "i", "s", " ", "i", "s", " ", "a", " ", "t", "e", "s", "t",
    " ", "d", "o", "c", "u", "m", "e", "n", "t", " ", "f", "o", "r", " ",
    "C", "h", "r", "o", "m", "a", "D", "B">>

Literals(s) == IF s = "simple" THEN testDocuments \cup {queryText}
               ELSE IF s = "fresh" THEN {testText}
               ELSE {}

ChunkScripts == Scripts \cup {"simple"}

\* the script, the document and the chunk size of one run of the functions
ChunkCases ==
  [kind : {"file"}, script : {"optimized", "fresh"}, text : SmallTexts,
   chunkSize : 1..MaxChunkSize]
  \cup [kind : {"file"}, script : {"optimized", "fresh", "simple"},
        text : SmallTexts \cup BigTexts, chunkSize : {CHUNK_SIZE}]
  \cup [kind : {"file"}, script : {"semantic"},
        text : SmallTexts \cup Bulletins, chunkSize : {0}]
  \cup UNION {[kind : {"literal"}, script : {s}, text : Literals(s),
               chunkSize : {0}] : s \in ChunkScripts}

InitChunk ==
  /\ dirExists = FALSE
  /\ listing = <<>>
  /\ content = <<>>
  /\ collExists = FALSE
  /\ coll = {}
  /\ mpc = "done"
  /\ loopI = 0
  /\ fileBatch = <<>>
  /\ task = <<>>
  /\ trace = <<>>
  /\ batches = <<>>
  /\ totalSuccessful = 0
  /\ totalFailed = 0
  /\ totalChunks = 0
  /\ run = 1
  /\ prev = NoPrev
  /\ faulted = FALSE
  /\ idCase = NoIds
  /\ \E c \in ChunkCases :
       /\ script = c.script
       /\ cs = [NoCase EXCEPT !.kind = c.kind, !.text = c.text,
                              !.chunkSize = c.chunkSize, !.stage = "start"]
  /\ ec = NoCall
  /\ sr = NoRequest

chunkFrame == <<script, dirExists, listing, content, collExists, coll, mpc,
                loopI, fileBatch, task, trace, batches, totalSuccessful,
                totalFailed, totalChunks, run, prev, faulted, idCase, ec, sr>>

\* cleanText applied to the content of a file, and to its own result
CleanStep ==
  /\ cs.kind = "file"
  /\ cs.stage = "start"
  /\ LET c == cleanText(cs.text)
     IN cs' = [cs EXCEPT !.cleaned = c,
                         !.recleaned = cleanText(c),
                         !.stage = "cleaned"]
  /\ UNCHANGED chunkFrame

\* processFile of the optimized and the fresh script: splitIntoChunks
SplitFixed ==
  /\ cs.stage = "cleaned"
  /\ script \in {"optimized", "fresh"}
  /\ cs' = [cs EXCEPT !.chunks = splitIntoChunks(cs.text, cs.chunkSize),
                      !.stage = "split"]
  /\ UNCHANGED chunkFrame

\* processFile of the simplified script: its chunking loop
SplitSimple ==
  /\ cs.stage = "cleaned"
  /\ script = "simple"
  /\ cs' = [cs EXCEPT !.chunks = SimpleChunks(cs.text), !.stage = "split"]
  /\ UNCHANGED chunkFrame

\* processFile of the semantic script: splitIntoSemanticChunks
SplitSemantic ==
  /\ cs.stage = "cleaned"
  /\ script = "semantic"
  /\ LET r == SemanticRun(cs.text)
     IN cs' = [cs EXCEPT !.marks = r.marks,
                         !.proposed = r.proposed,
                         !.chunks = r.chunks,
                         !.stage = "split"]
  /\ UNCHANGED chunkFrame

PromptLimit == 2000

\* getEmbedding that sends the cleaned text whatever its length
PromptWhole(s, text) == IF s = "simple" THEN text ELSE cleanText(text)

\* getEmbedding: the prompt of the request it sends
Prompt(s, text) ==
  IF s = "simple" THEN text
  ELSE LET cleanedText == cleanText(text)
       IN IF Len(cleanedText) > PromptLimit
          THEN Substring(cleanedText, 0, PromptLimit) ELSE cleanedText

\* the chunk loop of processFile: one getEmbedding call per chunk
EmbedStep ==
  /\ cs.stage = "split"
  /\ cs' = [cs EXCEPT !.prompts = [j \in DOMAIN cs.chunks |->
                                     Prompt(script, cs.chunks[j])],
                      !.stage = "embedded"]
  /\ UNCHANGED chunkFrame

\* getEmbedding called on a text of the script itself
EmbedLiteral ==
  /\ cs.kind = "literal"
  /\ cs.stage = "start"
  /\ cs' = [cs EXCEPT !.prompts = <<Prompt(script, cs.text)>>,
                      !.stage = "embedded"]
  /\ UNCHANGED chunkFrame

NextChunkStep ==
  \/ CleanStep
  \/ SplitFixed
  \/ SplitSimple
  \/ SplitSemantic
  \/ EmbedStep
  \/ EmbedLiteral

SpecChunk == InitChunk /\ [][NextChunkStep]_vars

\* ------------------------------------------------------------ getEmbedding
\* no script is running: the state of vectorizeFiles at rest
NoRun ==
  /\ dirExists = FALSE
  /\ listing = <<>>
  /\ content = <<>>
  /\ collExists = FALSE
  /\ coll = {}
  /\ mpc = "done"
  /\ loopI = 0
  /\ fileBatch = <<>>
  /\ task = <<>>
  /\ trace = <<>>
  /\ batches = <<>>
  /\ totalSuccessful = 0
  /\ totalFailed = 0
  /\ totalChunks = 0
  /\ run = 1
  /\ prev = NoPrev
  /\ faulted = FALSE

runFrame == <<script, dirExists, listing, content, collExists, coll, mpc,
              loopI, fileBatch, task, trace, batches, totalSuccessful,
              totalFailed, totalChunks, run, prev, faulted>>

\* the status codes the embedding service answers with
Statuses == {200, 204, 299, 300, 400, 404, 500, 503}

\* Response.ok
ResponseOk(status) == status >= 200 /\ status <= 299

BodyAlphabet == {"n", "o"}

\* the bodies the embedding service answers with
Bodies == UNION {[1..n -> BodyAlphabet] : n \in 0..MaxBodyLen}

\* one call of getEmbedding(text) against a service that answers with a
\* status and a body, or is not reached at all (status 0)
InitEmbed ==
  /\ script \in Scripts
  /\ NoRun
  /\ idCase = NoIds
  /\ cs = NoCase
  /\ sr = NoRequest
  /\ \E st \in Statuses \cup {0}, b \in Bodies :
       /\ st = 0 => b = <<>>
       /\ ec = [NoCall EXCEPT !.stage = "start", !.status = st, !.body = b]

embedFrame == <<runFrame, idCase, cs, sr>>

\* new Error(`HTTP error! status: ${response.status}`)
StatusMessage(status) == <<"HTTP error! status: ">> \o Decimal(status)

\* new Error(`HTTP error! status: ${response.status}, message: ${errorText}`)
StatusBodyMessage(status, errorText) ==
  StatusMessage(status) \o <<", message: ">> \o errorText

\* the call of fetch
Fetch ==
  /\ ec.stage = "start"
  /\ ec' = [ec EXCEPT !.stage = "fetch", !.requests = @ + 1]
  /\ UNCHANGED embedFrame

\* fetch settles: it rejects when the service is not reached, and the status
\* of the response decides what is awaited next
FetchReturn ==
  /\ ec.stage = "fetch"
  /\ ec' = IF ec.status = 0
             THEN [ec EXCEPT !.stage = "end", !.outcome = "thrown",
                             !.message = <<"fetch failed">>]
           ELSE IF ResponseOk(ec.status)
             THEN [ec EXCEPT !.stage = "json"]
           ELSE IF script = "fresh"
             THEN [ec EXCEPT !.stage = "text"]
           ELSE [ec EXCEPT !.stage = "end", !.outcome = "thrown",
                           !.message = StatusMessage(ec.status)]
  /\ UNCHANGED embedFrame

\* fresh: response.text() settles
TextReturn ==
  /\ ec.stage = "text"
  /\ ec' = [ec EXCEPT !.stage = "end", !.outcome = "thrown",
                      !.message = StatusBodyMessage(ec.status, ec.body)]
  /\ UNCHANGED embedFrame

\* response.json() settles: the embedding of the parsed body is returned,
\* or the parse error is thrown
JsonReturn(ok) ==
  /\ ec.stage = "json"
  /\ ec' = IF ok THEN [ec EXCEPT !.stage = "end", !.outcome = "vector"]
           ELSE [ec EXCEPT !.stage = "end", !.outcome = "thrown",
                           !.message = <<"Unexpected token">>]
  /\ UNCHANGED embedFrame

NextEmbed ==
  \/ Fetch
  \/ FetchReturn
  \/ TextReturn
  \/ \E ok \in BOOLEAN : JsonReturn(ok)

SpecEmbed == InitEmbed /\ [][NextEmbed]_vars

\* ------------------------------------------------------------ the search
\* The three programs that query the collection: POST of app/api/search
\* ("search"), app.post('/api/query') of backend/server.js ("query") and
\* searchBulletins of scripts/test.js ("cli").
Endpoints == {"search", "query", "cli"}

QueryAlphabet == {" ", "q"}

QueryTexts == UNION {[1..n -> QueryAlphabet] : n \in 0..MaxQueryLen}

Undefined == [type |-> "undefined", text |-> <<>>, num |-> 0]

Str(t) == [type |-> "string", text |-> t, num |-> 0]

Num(n) == [type |-> "number", text |-> <<>>, num |-> n]

\* the values of the property query of a request body
QueryValues == {Undefined} \cup {Str(t) : t \in QueryTexts} \cup {Num(0), Num(7)}

\* the request bodies: text that is no JSON, the JSON text null, an object
RequestBodies(e) ==
  IF e = "search"
    THEN {[kind |-> "malformed", query |-> Undefined],
          [kind |-> "null", query |-> Undefined]}
         \cup [kind : {"object"}, query : QueryValues]
  ELSE IF e = "query" THEN [kind : {"object"}, query : QueryValues]
  ELSE [kind : {"object"}, query : {Str(t) : t \in QueryTexts}]

\* what the store holds about one document it returns
Rows == {[document |-> d, metadata |-> m,
          distance |-> (IF d = "d1" THEN 0 ELSE 3),
          id |-> (IF d = "d1" THEN <<"i1">> ELSE <<"i2">>)] :
           d \in {"d1", "d2"}, m \in {"null", "m1"}}

\* the documents the store returns for a query, nearest first
RowLists == UNION {[1..n -> Rows] : n \in 0..MaxResults}

\* the answer of the store to a query for one query text or embedding
QueryResponse(rows) ==
  [documents |-> <<[i \in DOMAIN rows |-> rows[i].document]>>,
   metadatas |-> <<[i \in DOMAIN rows |-> rows[i].metadata]>>,
   distances |-> <<[i \in DOMAIN rows |-> rows[i].distance]>>,
   ids |-> <<[i \in DOMAIN rows |-> rows[i].id]>>]

NoError == [code |-> "none", data |-> "none", message |-> "none"]

\* the payloads of the error responses of the store
Payloads == {"InvalidCollection", "InvalidDimension"}

\* the errors a call to the store or to a model service ends with: no
\* connection, no answer, an error response with or without a body
Faults ==
  {[code |-> "ECONNREFUSED", data |-> "none", message |-> "connect ECONNREFUSED"],
   [code |-> "ENOTFOUND", data |-> "none", message |-> "getaddrinfo ENOTFOUND"],
   [code |-> "ETIMEDOUT", data |-> "none", message |-> "timeout exceeded"],
   [code |-> "ERR_BAD_REQUEST", data |-> "none",
    message |-> "Request failed with status code 404"]}
  \cup {[code |-> "ERR_BAD_RESPONSE", data |-> p,
         message |-> "Request failed with status code 500"] : p \in Payloads}

\* the errors of the handler's own code
SyntaxError == [code |-> "none", data |-> "none",
                message |-> "Unexpected token in JSON"]

TypeError == [code |-> "none", data |-> "none", message |-> "TypeError"]

NoResponse == [status |-> 0, kind |-> "none", message |-> <<>>, results |-> <<>>]

\* what is kept of the first of two requests with the same body
NoFirst == [errors |-> <<>>, response |-> NoResponse]

InitSearch ==
  /\ script \in {"optimized"}
  /\ NoRun
  /\ idCase = NoIds
  /\ cs = NoCase
  /\ ec = NoCall
  /\ \E e \in Endpoints, rows \in RowLists :
       \E b \in RequestBodies(e) :
         sr = [endpoint |-> e, body |-> b, rows |-> rows,
               stage |-> (IF e = "search" THEN "json" ELSE "handler"),
               calls |-> 0, queries |-> 0, sent |-> <<>>,
               embedding |-> "none", returned |-> <<>>,
               errors |-> <<>>, response |-> NoResponse,
               round |-> 1, first |-> NoFirst]

searchFrame == <<runFrame, idCase, cs, ec>>

\* JSON.stringify of the body of an error response of the store
JsonStringify(payload) ==
  <<"{", "QUOTE", "error", "QUOTE", ":", "QUOTE", payload, "QUOTE", "}">>

\* !query
Falsy(q) ==
  \/ q.type = "undefined"
  \/ q.type = "string" /\ q.text = <<>>
  \/ q.type = "number" /\ q.num = 0

\* documents && documents[0]
HasFirst(column) == column # <<>>

\* list[index] || otherwise
Nth(list, index, falsy, otherwise) ==
  IF index \in DOMAIN list /\ list[index] # falsy THEN list[index] ELSE otherwise

\* processResults(queryResults): the body of the success response
processResultsReversed(queryResults) ==
  IF HasFirst(queryResults.documents)
  THEN LET documents == queryResults.documents[1]
           n == Len(documents)
       IN [index \in 1..n |->
             [document |-> documents[index],
              metadata |-> IF HasFirst(queryResults.metadatas)
                           THEN Nth(queryResults.metadatas[1], n + 1 - index, "null", "{}")
                           ELSE "{}",
              distance |-> IF HasFirst(queryResults.distances)
                           THEN Nth(queryResults.distances[1], index, 0, 0)
                           ELSE 0,
              id |-> IF HasFirst(queryResults.ids)
                     THEN Nth(queryResults.ids[1], index, <<>>,
                              <<"result-">> \o Decimal(index - 1))
                     ELSE <<"result-">> \o Decimal(index - 1)]]
  ELSE <<>>

processResults(queryResults) ==
  IF HasFirst(queryResults.documents)
  THEN LET documents == queryResults.documents[1]
       IN [index \in 1..Len(documents) |->
             [document |-> documents[index],
              metadata |-> IF HasFirst(queryResults.metadatas)
                           THEN Nth(queryResults.metadatas[1], index, "null", "{}")
                           ELSE "{}",
              distance |-> IF HasFirst(queryResults.distances)
                           THEN Nth(queryResults.distances[1], index, 0, 0)
                           ELSE 0,
              id |-> IF HasFirst(queryResults.ids)
                     THEN Nth(queryResults.ids[1], index, <<>>,
                              <<"result-">> \o Decimal(index - 1))
                     ELSE <<"result-">> \o Decimal(index - 1)]]
  ELSE <<>>

\* NextResponse.json({ results })
Success(results) ==
  [status |-> 200, kind |-> "results", message |-> <<>>, results |-> results]

\* { error: 'Query is required' }, { status: 400 }
BadRequest ==
  [status |-> 400, kind |-> "error", message |-> <<"Query is required">>,
   results |-> <<>>]

\* the catch of POST: the response to an error
ErrorResponse(error) ==
  IF error.code \in {"ECONNREFUSED", "ENOTFOUND"}
  THEN [status |-> 503, kind |-> "error",
        message |-> <<"Cannot connect to ChromaDB at 192.168.0.105:8000. Make sure the server is running and accessible.">>,
        results |-> <<>>]
  ELSE LET detailedMessage == IF error.data # "none"
                              THEN JsonStringify(error.data)
                              ELSE <<error.message>>
       IN [status |-> 500, kind |-> "error",
           message |-> <<"Failed to perform search: ">> \o detailedMessage,
           results |-> <<>>]

\* the handler returns a response
Respond(r) == sr' = [sr EXCEPT !.stage = "end", !.response = r]

\* the handler catches an error and returns the response to it
RespondTo(error) ==
  sr' = [sr EXCEPT !.stage = "end", !.errors = Append(@, error),
                   !.response = ErrorResponse(error)]

\* the handler sends a query to the store and awaits the answer
SendQuery(stage, errors) ==
  sr' = [sr EXCEPT !.stage = stage, !.calls = @ + 1, !.queries = @ + 1,
                   !.sent = Append(@, stage), !.errors = errors]

\* the values of Array.from({ length: 384 }, () => Math.random() - 0.5)
Embeddings == {"u", "v"}

RECURSIVE Reverse(_)
Reverse(s) == IF s = <<>> THEN <<>> ELSE Append(Reverse(Tail(s)), Head(s))

\* the documents the store returns for a query embedding, nearest first:
\* their order depends on the embedding
Nearest(rows, embedding) == IF embedding = "v" THEN Reverse(rows) ELSE rows

\* the handler sends the query for a random embedding and awaits the answer
SendEmbedding(embedding, errors) ==
  sr' = [sr EXCEPT !.stage = "query_embeddings", !.calls = @ + 1,
                   !.queries = @ + 1,
                   !.sent = Append(@, "query_embeddings"),
                   !.embedding = embedding, !.errors = errors]

\* the handler returns the results the store answered with
RespondWith(rows) ==
  sr' = [sr EXCEPT !.stage = "end", !.returned = rows,
                   !.response = Success(processResults(QueryResponse(rows)))]

\* POST: request.json() settles; the query is taken from the body and
\* tested, and the query for the text is sent
RequestJsonReturn ==
  /\ sr.endpoint = "search"
  /\ sr.stage = "json"
  /\ IF sr.body.kind = "malformed" THEN RespondTo(SyntaxError)
     ELSE IF sr.body.kind = "null" THEN RespondTo(TypeError)
     ELSE LET query == sr.body.query
          IN IF Falsy(query) THEN Respond(BadRequest)
             ELSE IF query.type # "string" THEN RespondTo(TypeError)
             ELSE IF Trim(query.text) = <<>> THEN Respond(BadRequest)
             ELSE SendQuery("query_texts", sr.errors)
  /\ UNCHANGED searchFrame

\* variant of QueryTextsReturn that sends the query for a random embedding
\* whether the query for the text failed or not
QueryTextsReturnBoth(outcome, embedding) ==
  /\ sr.endpoint = "search"
  /\ sr.stage = "query_texts"
  /\ SendEmbedding(embedding, IF outcome = NoError THEN sr.errors
                              ELSE Append(sr.errors, outcome))
  /\ UNCHANGED searchFrame

\* POST: the query for the text settles; when it failed the query for a
\* random embedding is sent
QueryTextsReturn(outcome, embedding) ==
  /\ sr.endpoint = "search"
  /\ sr.stage = "query_texts"
  /\ IF outcome = NoError
     THEN RespondWith(sr.rows)
     ELSE SendEmbedding(embedding, Append(sr.errors, outcome))
  /\ UNCHANGED searchFrame

\* POST: the query for the random embedding settles
QueryEmbeddingsReturn(outcome) ==
  /\ sr.endpoint = "search"
  /\ sr.stage = "query_embeddings"
  /\ IF outcome = NoError
     THEN RespondWith(Nearest(sr.rows, sr.embedding))
     ELSE RespondTo(outcome)
  /\ UNCHANGED searchFrame

\* res.status(400).json({ message: 'Query is required' })
QueryRequired ==
  [status |-> 400, kind |-> "error", message |-> <<"Query is required">>,
   results |-> <<>>]

\* res.status(500).json({ message: 'Error processing your query' })
ProcessingError ==
  [status |-> 500, kind |-> "error",
   message |-> <<"Error processing your query">>, results |-> <<>>]

\* the handler calls a service and awaits the answer
Call(stage) == sr' = [sr EXCEPT !.stage = stage, !.calls = @ + 1]

\* the catch of app.post('/api/query')
Caught(error) ==
  sr' = [sr EXCEPT !.stage = "end", !.errors = Append(@, error),
                   !.response = ProcessingError]

\* app.post('/api/query'): the query is taken from the body and tested, and
\* the collection is asked for
QueryHandler ==
  /\ sr.endpoint = "query"
  /\ sr.stage = "handler"
  /\ IF Falsy(sr.body.query) THEN Respond(QueryRequired)
     ELSE Call("getCollection")
  /\ UNCHANGED searchFrame

\* app.post('/api/query'): client.getCollection settles
QueryGetCollectionReturn(outcome) ==
  /\ sr.endpoint = "query"
  /\ sr.stage = "getCollection"
  /\ IF outcome = NoError THEN SendQuery("collection.query", sr.errors)
     ELSE Caught(outcome)
  /\ UNCHANGED searchFrame

\* app.post('/api/query'): collection.query settles, the prompt is made of
\* the documents and sent to the language model
QueryCollectionQueryReturn(outcome) ==
  /\ sr.endpoint = "query"
  /\ sr.stage = "collection.query"
  /\ IF outcome = NoError THEN Call("generate") ELSE Caught(outcome)
  /\ UNCHANGED searchFrame

\* app.post('/api/query'): fetch settles
QueryGenerateReturn(outcome) ==
  /\ sr.endpoint = "query"
  /\ sr.stage = "generate"
  /\ IF outcome = NoError THEN sr' = [sr EXCEPT !.stage = "generate.json"]
     ELSE Caught(outcome)
  /\ UNCHANGED searchFrame

\* app.post('/api/query'): ollamaResponse.json() settles
QueryGenerateJsonReturn(ok) ==
  /\ sr.endpoint = "query"
  /\ sr.stage = "generate.json"
  /\ IF ok
     THEN Respond([status |-> 200, kind |-> "answer", message |-> <<>>,
                   results |-> <<>>])
     ELSE Caught(SyntaxError)
  /\ UNCHANGED searchFrame

\* searchBulletins: what the loop over results.ids[0] prints
Printed(results) ==
  [i \in 1..Len(results.ids[1]) |->
     [document |-> results.documents[1][i],
      metadata |-> results.metadatas[1][i],
      distance |-> results.distances[1][i],
      id |-> results.ids[1][i]]]

\* searchBulletins: the catch
SearchFailed(error) ==
  sr' = [sr EXCEPT !.stage = "end", !.errors = Append(@, error),
                   !.response = [status |-> 0, kind |-> "failed",
                                 message |-> <<"Search failed: ", error.message>>,
                                 results |-> <<>>]]

\* searchBulletins: the collection is asked for
CliStart ==
  /\ sr.endpoint = "cli"
  /\ sr.stage = "handler"
  /\ Call("getCollection")
  /\ UNCHANGED searchFrame

\* searchBulletins: client.getCollection settles
CliGetCollectionReturn(outcome) ==
  /\ sr.endpoint = "cli"
  /\ sr.stage = "getCollection"
  /\ IF outcome = NoError THEN Call("getEmbedding") ELSE SearchFailed(outcome)
  /\ UNCHANGED searchFrame

\* searchBulletins: getEmbedding(query) settles
CliGetEmbeddingReturn(outcome) ==
  /\ sr.endpoint = "cli"
  /\ sr.stage = "getEmbedding"
  /\ IF outcome = NoError THEN SendQuery("collection.query", sr.errors)
     ELSE SearchFailed(outcome)
  /\ UNCHANGED searchFrame

\* searchBulletins: collection.query settles and the results are printed
CliQueryReturn(outcome) ==
  /\ sr.endpoint = "cli"
  /\ sr.stage = "collection.query"
  /\ IF outcome # NoError THEN SearchFailed(outcome)
     ELSE LET results == QueryResponse(sr.rows)
          IN sr' = [sr EXCEPT
                      !.stage = "end", !.returned = sr.rows,
                      !.response =
                        IF Len(results.ids[1]) = 0
                        THEN [status |-> 0, kind |-> "none",
                              message |-> <<"No results found.">>,
                              results |-> <<>>]
                        ELSE [status |-> 0, kind |-> "printed",
                              message |-> <<>>, results |-> Printed(results)]]
  /\ UNCHANGED searchFrame

Outcomes == {NoError} \cup Faults

NextSearch ==
  \/ RequestJsonReturn
  \/ \E outcome \in Outcomes, embedding \in Embeddings :
       QueryTextsReturn(outcome, embedding)
  \/ \E outcome \in Outcomes : QueryEmbeddingsReturn(outcome)
  \/ QueryHandler
  \/ \E outcome \in Outcomes : QueryGetCollectionReturn(outcome)
  \/ \E outcome \in Outcomes : QueryCollectionQueryReturn(outcome)
  \/ \E outcome \in Outcomes : QueryGenerateReturn(outcome)
  \/ \E ok \in BOOLEAN : QueryGenerateJsonReturn(ok)
  \/ CliStart
  \/ \E outcome \in Outcomes : CliGetCollectionReturn(outcome)
  \/ \E outcome \in Outcomes : CliGetEmbeddingReturn(outcome)
  \/ \E outcome \in Outcomes : CliQueryReturn(outcome)

SpecSearch == InitSearch /\ [][NextSearch]_vars

\* a client sends the request it has the response to once more, to the same
\* store
Repeat ==
  /\ sr.endpoint = "search"
  /\ sr.stage = "end"
  /\ sr.round = 1
  /\ sr' = [sr EXCEPT !.round = @ + 1,
                      !.first = [errors |-> sr.errors, response |-> sr.response],
                      !.stage = "json", !.calls = 0, !.queries = 0,
                      !.sent = <<>>, !.embedding = "none", !.returned = <<>>,
                      !.errors = <<>>, !.response = NoResponse]
  /\ UNCHANGED searchFrame

NextRepeat == NextSearch \/ Repeat

SpecRepeat == InitSearch /\ [][NextRepeat]_vars

\* --------------------------------------- the chunking loops, step by step
\* The loops of splitIntoChunks and splitIntoSemanticChunks run one
\* iteration at a time on a text of one document, while no script is
\* running: i is the loop variable of the for loop, regex.lastIndex in the
\* while loop, and lastIndex the variable of that name.
\* The texts: every text of at most MaxLoopText characters that are a letter
\* or a space, for the for loop, and every bulletin of at most MaxBlocks
\* blocks and MaxLoopLen characters, for the while loop.
LoopTexts == UNION {[1..n -> {"a", " "}] : n \in 0..MaxLoopText}

LoopDocs ==
  {DocText(d) : d \in {e \in UNION {[1..n -> BlockKinds] : n \in 0..MaxBlocks} :
                         DocLen(e) <= MaxLoopLen}}

LoopCases ==
  [kind : {"stride"}, script : {"optimized"}, text : LoopTexts,
   chunkSize : 1..MaxChunkSize]
  \cup [kind : {"exec"}, script : {"semantic"}, text : LoopDocs, chunkSize : {0}]

\* where the match of combinedPattern that starts at each 1-based position
\* of s ends, 0 where none starts
MatchEnds(s) == [p \in 1..Len(s) |-> CombinedEnd(s, p)]

\* the function is entered: cleanedText is computed, chunks is empty; ends
\* is what the regular expression matches in cleanedText
LoopEntry(c) ==
  LET cleanedText == cleanText(c.text)
  IN [kind |-> c.kind, text |-> c.text, chunkSize |-> c.chunkSize,
      stage |-> "loop", cleaned |-> cleanedText,
      ends |-> IF c.kind = "exec" THEN MatchEnds(cleanedText) ELSE <<>>,
      i |-> 0, lastIndex |-> 0, chunks |-> <<>>]

\* one iteration of the for loop of splitIntoChunks: the stride at i is
\* trimmed and kept when it is not empty, and i moves on by chunkSize
StrideStep ==
  /\ cs.kind = "stride"
  /\ cs.stage = "loop"
  /\ cs.i < Len(cs.cleaned)
  /\ cs' = [cs EXCEPT
              !.chunks = PushText(@, Trim(Substring(cs.cleaned, cs.i,
                                                    cs.i + cs.chunkSize))),
              !.i = @ + cs.chunkSize]
  /\ UNCHANGED chunkFrame

\* the test i < cleanedText.length fails: splitIntoChunks returns chunks
StrideExit ==
  /\ cs.kind = "stride"
  /\ cs.stage = "loop"
  /\ cs.i >= Len(cs.cleaned)
  /\ cs' = [cs EXCEPT !.stage = "returned"]
  /\ UNCHANGED chunkFrame

\* the 1-based positions from regex.lastIndex on where a match starts
ExecHits(ends, i) == {p \in (i + 1)..Len(ends) : ends[p] # 0}

\* one iteration of the while loop of splitIntoSemanticChunks: regex.exec
\* finds the next match, the text since lastIndex is kept when it is more
\* than MinGap long, and regex.lastIndex moves to the end of the match;
\* when regex.exec returns null the loop is left and the final chunk is
\* added
ExecStep ==
  /\ cs.kind = "exec"
  /\ cs.stage = "loop"
  /\ LET hits == ExecHits(cs.ends, cs.i)
     IN IF hits # {}
        THEN LET p == CHOOSE q \in hits : \A r \in hits : q <= r
             IN cs' = [cs EXCEPT
                         !.chunks = IF (p - 1) - cs.lastIndex > MinGap
                                    THEN PushText(@, Trim(Substring(cs.cleaned,
                                                            cs.lastIndex, p - 1)))
                                    ELSE @,
                         !.lastIndex = p - 1,
                         !.i = cs.ends[p] - 1]
        ELSE cs' = [cs EXCEPT
                      !.chunks = IF cs.lastIndex < Len(cs.cleaned)
                                 THEN PushText(@, Trim(Substring(cs.cleaned,
                                                   cs.lastIndex, Len(cs.cleaned))))
                                 ELSE @,
                      !.stage = "returned"]
  /\ UNCHANGED chunkFrame

\* a script is started, or a chunking function is entered
InitLive ==
  \/ InitWith(MaxFiles, MaxLiveChunks)
  \/ /\ NoRun
     /\ idCase = NoIds
     /\ ec = NoCall
     /\ sr = NoRequest
     /\ \E c \in LoopCases :
          /\ script = c.script
          /\ cs = LoopEntry(c)

NextLive ==
  \/ Next
  \/ StrideStep
  \/ StrideExit
  \/ ExecStep

\* every awaited call returns or fails and every loop iteration is run:
\* a step that can be taken is taken
SpecLive == InitLive /\ [][NextLive]_vars /\ WF_vars(NextLive)

\* ================================================================ claims
\* positions of the events of one kind in a trace
Pos(tr, kind) == {n \in DOMAIN tr : tr[n][1] = kind}

\* the n-th event of a trace
Ev(tr, n) == IF n \in DOMAIN tr THEN tr[n] ELSE <<"none", -1>>

Fails(tr) == Pos(tr, "embedFail") \cup Pos(tr, "addFail")

Active == {k \in DOMAIN task : task[k].pc \in {"embed", "add", "delay"}}

\* the files a finished run must have processed
Due == IF script = "fresh" THEN {k \in DOMAIN task : k = 1} ELSE DOMAIN task

RunComplete == mpc \in {"done", "sampleQuery"}

\* C1: a failed embedding call or store write never aborts the document or
\* the run: the embedding requests of a document are those of the chunks
\* 0, 1, 2, ... in this order, one per chunk, a finished document has had
\* all its chunks attempted, and when the run completes every document due
\* has finished.
ThC1 ==
  /\ \A k \in DOMAIN trace :
       /\ \A n \in Pos(trace[k], "embed") :
            trace[k][n][2] = Cardinality({m \in Pos(trace[k], "embed") : m < n})
       /\ Cardinality(Pos(trace[k], "embed")) <= NChunks(k)
       /\ task[k].pc = "done" => Cardinality(Pos(trace[k], "embed")) = NChunks(k)
  /\ RunComplete => \A k \in Due : task[k].pc = "done"

WitC1 ==
  /\ mpc = "done"
  /\ \E k \in DOMAIN trace, k2 \in DOMAIN trace :
       /\ k < k2
       /\ Cardinality(Pos(trace[k], "embed")) = 2
       /\ Ev(trace[k], 2) = <<"embedFail", 0>>
       /\ Cardinality(Pos(trace[k2], "embed")) = 1

\* C2: a chunk whose embedding call failed is counted as failed and never
\* written: every entry of the collection comes from an add that was issued
\* after the embedding call of that very chunk had succeeded, no add is ever
\* issued for a chunk whose embedding failed, and the chunk after a failed
\* one is requested before the document finishes.
ThC2 ==
  /\ \A e \in coll \ {TestEntry} :
       LET tr == trace[e.doc[1]]
       IN \E n \in DOMAIN tr, m \in DOMAIN tr :
            /\ n < m
            /\ tr[n] = <<"embedOk", e.doc[2]>>
            /\ tr[m] = <<"add", e.doc[2]>>
  /\ \A k \in DOMAIN trace :
       /\ \A n \in Pos(trace[k], "embedFail") :
            /\ <<"add", trace[k][n][2]>> \notin {trace[k][m] : m \in DOMAIN trace[k]}
            /\ \A e \in coll : e.doc # <<k, trace[k][n][2]>>
            /\ task[k].pc = "done" /\ trace[k][n][2] + 1 < NChunks(k)
                 => <<"embed", trace[k][n][2] + 1>> \in {trace[k][m] : m \in DOMAIN trace[k]}
       /\ task[k].failed >= Cardinality(Pos(trace[k], "embedFail"))

WitC2 ==
  \E k \in DOMAIN trace :
    /\ task[k].pc = "done"
    /\ Ev(trace[k], 2) = <<"embedFail", 0>>
    /\ task[k].failed = 1
    /\ \E e \in coll : e.doc = <<k, 1>>

\* C3: at most CONCURRENT_FILES documents are being processed and at most
\* that many embedding requests are outstanding, and a document has only
\* been started when every document of the groups before its own has
\* finished.
ThC3 ==
  /\ Cardinality(Active) <= CONCURRENT_FILES
  /\ Cardinality({k \in DOMAIN task : task[k].pc = "embed"}) <= CONCURRENT_FILES
  /\ \A k \in DOMAIN task, j \in DOMAIN task :
       /\ task[k].pc # "idle"
       /\ (j - 1) \div CONCURRENT_FILES < (k - 1) \div CONCURRENT_FILES
       => task[j].pc = "done"

WitC3 ==
  /\ Cardinality({k \in DOMAIN task : task[k].pc = "embed"}) = CONCURRENT_FILES
  /\ \E k \in DOMAIN task : task[k].pc = "idle"

\* C4: the batches handed out are the successive groups of the file list:
\* batch b holds the files at positions 3(b-1)+1 .. 3b of the list, cut at
\* the end of the list, so only the last one may be smaller; a completed
\* run has handed out every file exactly once; seven files give batches of
\* 3, 3 and 1.
ThC4 ==
  /\ \A b \in DOMAIN batches :
       /\ Len(batches[b]) = Min(CONCURRENT_FILES, NFiles - (b - 1) * CONCURRENT_FILES)
       /\ Len(batches[b]) >= 1
       /\ \A j \in DOMAIN batches[b] :
            batches[b][j] = txtFiles[(b - 1) * CONCURRENT_FILES + j]
  /\ RunComplete /\ script # "fresh" =>
       /\ \A k \in 1..NFiles :
            \E j \in 1..CONCURRENT_FILES :
              /\ j \in DOMAIN batches[((k - 1) \div CONCURRENT_FILES) + 1]
              /\ batches[((k - 1) \div CONCURRENT_FILES) + 1][j] = txtFiles[k]
       /\ SumTo([b \in DOMAIN batches |-> Len(batches[b])], Len(batches)) = NFiles
       /\ NFiles = 7 => [b \in DOMAIN batches |-> Len(batches[b])] = <<3, 3, 1>>

WitC4 ==
  /\ mpc = "done"
  /\ NFiles = 7
  /\ Len(batches) = 3
  /\ Len(batches[3]) = 1

\* C5: when the batch loop has ended, the aggregate success and failure
\* counts are the sums of the counts the documents returned, and these are
\* the numbers of completed and of failed chunk attempts of the run.
ThC5 ==
  RunComplete /\ script # "fresh" =>
    /\ totalSuccessful = SumTo([k \in DOMAIN task |-> task[k].successful], NFiles)
    /\ totalFailed = SumTo([k \in DOMAIN task |-> task[k].failed], NFiles)
    /\ totalSuccessful
         = SumTo([k \in DOMAIN trace |-> Cardinality(Pos(trace[k], "addOk"))], NFiles)
    /\ totalFailed
         = SumTo([k \in DOMAIN trace |-> Cardinality(Fails(trace[k]))], NFiles)

WitC5 ==
  /\ mpc = "done"
  /\ script # "fresh"
  /\ totalSuccessful = 2
  /\ totalFailed = 1
  /\ \E k \in DOMAIN task, k2 \in DOMAIN task :
       /\ k < k2
       /\ k2 <= CONCURRENT_FILES
       /\ task[k].failed = 1
       /\ task[k2].successful = 1

\* C6: within a document the calls are strictly sequential: the embedding
\* request of a chunk is only issued when the attempt on the chunk before it
\* is over, that is after its failure or after the delay that follows its
\* store write; a store write is only issued on the embedding of the same
\* chunk, a delay only on a completed store write or (fresh) a failure.
ThC6 ==
  \A k \in DOMAIN trace :
    \A n \in DOMAIN trace[k] :
      LET e == trace[k][n]
          p == Ev(trace[k], n - 1)
      IN /\ e[1] = "embed" => \/ n = 1 /\ e[2] = 0
                              \/ /\ p[1] = "delay"
                                 /\ Ev(trace[k], n - 2)[2] = e[2] - 1
                              \/ /\ p[1] \in {"embedFail", "addFail"}
                                 /\ p[2] = e[2] - 1
         /\ e[1] \in {"embedOk", "embedFail"} => p = <<"embed", e[2]>>
         /\ e[1] = "add" => p = <<"embedOk", e[2]>>
         /\ e[1] \in {"addOk", "addFail"} => p = <<"add", e[2]>>
         /\ e[1] = "delay" => p[1] \in {"addOk", "embedFail", "addFail"}
         /\ e[1] = "addOk" /\ n < Len(trace[k]) => trace[k][n + 1][1] = "delay"

WitC6 ==
  \E k \in DOMAIN trace, k2 \in DOMAIN trace :
    /\ k # k2
    /\ k2 \in Active
    /\ Ev(trace[k], 5)[1] = "delay"
    /\ Ev(trace[k], 6) = <<"embed", 1>>

\* C7 (as claimed): between two consecutive embedding requests of a
\* document there is always a delay, after a failed attempt as well.
CeC7 ==
  \A k \in DOMAIN trace :
    \A n \in Pos(trace[k], "embed") :
      n > 1 => trace[k][n - 1][1] = "delay"

\* C8 (as claimed): a failed attempt is followed by a delay of twice
\* DELAY_MS, a successful one by a delay of DELAY_MS.
CeC8 ==
  \A k \in DOMAIN trace :
    /\ \A n \in Fails(trace[k]) :
         IF n = Len(trace[k])
         THEN task[k].pc = "delay" /\ task[k].wait = 2 * DelayMs(script)
         ELSE trace[k][n + 1] = <<"delay", 2 * DelayMs(script)>>
    /\ \A n \in Pos(trace[k], "addOk") :
         IF n = Len(trace[k])
         THEN task[k].pc = "delay" /\ task[k].wait = DelayMs(script)
         ELSE trace[k][n + 1] = <<"delay", DelayMs(script)>>

\* C9 (as claimed): when a run that completed is followed by a second run
\* over the same documents and no call of either run hits a fault, the
\* second run issues the same chunk ids, leaves the collection with the
\* same number of entries and records the same successes.
CeC9 ==
  /\ run = 2
  /\ Ended
  /\ ~faulted
  /\ prev.outcome = "done"
  => /\ IssuedIds = prev.ids
     /\ Cardinality(coll) = prev.count
     /\ Recorded = prev.recorded

\* C10 (as claimed): two different (file, chunk index) pairs of files with
\* distinct names ending in .txt never get the same id.
CeC10 ==
  /\ idCase.made
  /\ <<idCase.a, idCase.i>> # <<idCase.b, idCase.j>>
  => idCase.ida # idCase.idb

\* the chunks of the document have been made
Split == cs.kind = "file" /\ cs.stage \in {"split", "embedded"}

FixedStride == script \in {"optimized", "fresh"}

CeilDiv(a, b) == (a + b - 1) \div b

\* the k-th stride (k = 0, 1, ...) of text s for chunk size c
Stride(s, k, c) == SubSeq(s, k * c + 1, Min((k + 1) * c, Len(s)))

Blank(s) == \A i \in DOMAIN s : IsSpace(s[i])

\* chunk is what is left of stride s when the whitespace at its two ends goes
IsTrimOf(chunk, s) ==
  /\ chunk # <<>>
  /\ ~IsSpace(chunk[1])
  /\ ~IsSpace(chunk[Len(chunk)])
  /\ \E a \in 0..(Len(s) - Len(chunk)) :
       /\ chunk = SubSeq(s, a + 1, a + Len(chunk))
       /\ Blank(SubSeq(s, 1, a))
       /\ Blank(SubSeq(s, a + Len(chunk) + 1, Len(s)))

\* the strides of s that are not pure whitespace, in order
KeptStrides(s, c) ==
  LET all == [k \in 1..CeilDiv(Len(s), c) |-> Stride(s, k - 1, c)]
      keep(x) == ~Blank(x)
  IN SelectSeq(all, keep)

\* the chunks are the trimmed strides that hold text, in order: consecutive,
\* non-overlapping, each of 1..chunkSize characters, at most
\* ceil(L / chunkSize) of them
StrideChunks ==
  LET kept == KeptStrides(cs.cleaned, cs.chunkSize)
  IN /\ Len(cs.chunks) = Len(kept)
     /\ Len(cs.chunks) <= CeilDiv(Len(cs.cleaned), cs.chunkSize)
     /\ \A j \in DOMAIN cs.chunks :
          /\ Len(cs.chunks[j]) \in 1..cs.chunkSize
          /\ IsTrimOf(cs.chunks[j], kept[j])

\* the case of chunk size 500 and a sanitized text of 1300 characters
Case1300 == FixedStride /\ Split /\ cs.chunkSize = 500 /\ Len(cs.cleaned) = 1300

\* three chunks, the trimmed text of the first 500, the next 500 and the
\* last n characters
ThreeChunks(n) ==
  /\ Len(cs.chunks) = 3
  /\ IsTrimOf(cs.chunks[1], SubSeq(cs.cleaned, 1, 500))
  /\ IsTrimOf(cs.chunks[2], SubSeq(cs.cleaned, 501, 1000))
  /\ IsTrimOf(cs.chunks[3], SubSeq(cs.cleaned, 1001, 1000 + n))

\* C12 as stated: fixed-stride chunking gives consecutive non-overlapping
\* chunks of 1..chunkSize characters, at most ceil(L / chunkSize) of them,
\* and for chunk size 500 and 1300 characters three chunks of 500, 500 and
\* 200 characters less the trimmed whitespace.
CeC12 ==
  /\ (FixedStride /\ Split) => StrideChunks
  /\ Case1300 => ThreeChunks(200)

\* C12, amended: fixed-stride chunking gives consecutive non-overlapping
\* chunks of 1..chunkSize characters, at most ceil(L / chunkSize) of them
\* (exactly that many when no stride is pure whitespace), and for chunk size
\* 500 and 1300 characters three chunks of 500, 500 and 300 characters less
\* the trimmed whitespace.
ThC12 ==
  /\ (FixedStride /\ Split) => StrideChunks
  /\ Case1300 => ThreeChunks(300)

WitC12 ==
  /\ Case1300
  /\ Len(cs.chunks[1]) = 499
  /\ Len(cs.chunks[3]) = 300

\* C13 as stated: the chunk with sequence index i is the text of the i-th
\* stride [i*chunkSize, (i+1)*chunkSize) of the sanitized text, for every
\* input and every chunkSize >= 1.
CeC13 ==
  (FixedStride /\ Split) =>
    \A i \in 0..(Len(cs.chunks) - 1) :
      cs.chunks[i + 1] = Stride(cs.cleaned, i, cs.chunkSize)

\* C13, amended: for every input and every chunkSize >= 2 there is one chunk
\* per stride, and the chunk with sequence index i is the i-th stride of the
\* sanitized text with the whitespace at its two ends trimmed.
ThC13 ==
  (FixedStride /\ Split /\ cs.chunkSize >= 2) =>
    /\ Len(cs.chunks) = CeilDiv(Len(cs.cleaned), cs.chunkSize)
    /\ \A i \in 0..(Len(cs.chunks) - 1) :
         IsTrimOf(cs.chunks[i + 1], Stride(cs.cleaned, i, cs.chunkSize))

WitC13 ==
  /\ FixedStride /\ Split /\ cs.chunkSize = 2
  /\ Len(cs.chunks) = 2
  /\ cs.chunks[1] # Stride(cs.cleaned, 0, 2)

\* C19: cleanText gives a result for every input, cleaning its result again
\* changes nothing, and the result holds only printable ASCII characters, no
\* whitespace at either end and no two whitespace characters in a row.
ThC19 ==
  cs.stage \in {"cleaned", "split", "embedded"} =>
    LET c == cs.cleaned
    IN /\ cs.recleaned = c
       /\ \A i \in DOMAIN c : c[i] \in Ascii20to7E
       /\ c # <<>> => ~IsSpace(c[1]) /\ ~IsSpace(c[Len(c)])
       /\ \A i \in 1..(Len(c) - 1) : ~(IsSpace(c[i]) /\ IsSpace(c[i + 1]))

WitC19 ==
  /\ cs.stage = "cleaned"
  /\ \E i \in DOMAIN cs.text : cs.text[i] = "E9"
  /\ \E i \in 1..(Len(cs.text) - 1) : IsSpace(cs.text[i]) /\ IsSpace(cs.text[i + 1])
  /\ IsSpace(cs.text[1])
  /\ Len(cs.cleaned) >= 1
  /\ cs.recleaned = cs.cleaned

Semantic == script = "semantic"

NotSpace(c) == ~IsSpace(c)

RECURSIVE Flatten(_)
Flatten(ss) == IF ss = <<>> THEN <<>> ELSE Head(ss) \o Flatten(Tail(ss))

\* the characters of a text that are not whitespace, in order
Ink(s) == SelectSeq(s, NotSpace)

\* C11 as stated: for both chunking strategies the chunks, taken in order,
\* hold every non-whitespace character of the sanitized document exactly
\* once and in its original order.
CeC11 ==
  ((FixedStride \/ Semantic) /\ Split) =>
    Ink(Flatten(cs.chunks)) = Ink(cs.cleaned)

\* C14: every chunk semantic chunking emits, except possibly the last one of
\* the document, has at least minChunkSize characters.
ThC14 ==
  (Semantic /\ Split) =>
    \A j \in 1..(Len(cs.chunks) - 1) : Len(cs.chunks[j]) >= minChunkSize

WitC14 ==
  /\ Semantic /\ Split
  /\ Len(cs.chunks) = 2
  /\ Len(cs.chunks[2]) = minChunkSize

\* C15 as stated: every chunk semantic chunking emits has at most
\* maxChunkSize characters.
CeC15 ==
  (Semantic /\ Split) =>
    \A j \in DOMAIN cs.chunks : Len(cs.chunks[j]) <= maxChunkSize

\* C16 as stated: a document whose sanitized text is non-empty and shorter
\* than minChunkSize yields exactly one chunk, which holds that text.
CeC16 ==
  (Semantic /\ Split /\ Len(cs.cleaned) \in 1..(minChunkSize - 1)) =>
    cs.chunks = <<cs.cleaned>>

\* the split loop as C17 describes it: a marker at least MinGap past the
\* previous split ends the current segment, a closer marker changes nothing
RECURSIVE SplitByGap(_, _, _, _, _)
SplitByGap(s, m, k, last, segs) ==
  IF k > Len(m)
  THEN IF Trim(Substring(s, last, Len(s))) # <<>>
       THEN Append(segs, Trim(Substring(s, last, Len(s)))) ELSE segs
  ELSE IF m[k] - last >= MinGap
       THEN SplitByGap(s, m, k + 1, m[k], Append(segs, Trim(Substring(s, last, m[k]))))
       ELSE SplitByGap(s, m, k + 1, last, segs)

\* C17 as stated: the proposed segments end wherever a marker is at least
\* MinGap = 50 characters past the previous split (exactly 50 included), and
\* a closer marker leaves the split point and the text before it alone.
CeC17 ==
  (Semantic /\ Split) =>
    cs.proposed = SplitByGap(cs.cleaned, cs.marks, 1, 0, <<>>)

\* a line of the raw document that starts a section heading or a list item
HeadingLines ==
  {p \in DOMAIN cs.text : SectionEnd(cs.text, p) # 0 \/ BulletinEnd(cs.text, p) # 0}

CourseStarts == {p \in DOMAIN cs.text : CourseEnd(cs.text, p) # 0}

\* C18 as stated: a section heading or a list item that begins a line of the
\* raw document, more than MinGap past the start of a document with no other
\* marker, starts a proposed segment of its own.
CeC18 ==
  (/\ Semantic /\ Split
   /\ CourseStarts = {}
   /\ Cardinality(HeadingLines) = 1
   /\ \A p \in HeadingLines : p > MinGap + 1)
  => /\ Len(cs.proposed) = 2
     /\ \A p \in HeadingLines :
          cs.proposed[2] = cleanText(SubSeq(cs.text, p, Len(cs.text)))

\* C20: every prompt the embedding client sends, for the chunks of a file
\* and for the texts the scripts hold themselves, has at most 2000
\* characters.
ThC20 ==
  cs.stage = "embedded" =>
    \A j \in DOMAIN cs.prompts : Len(cs.prompts[j]) <= 2000

WitC20 ==
  /\ Semantic
  /\ cs.stage = "embedded"
  /\ \E j \in DOMAIN cs.prompts :
       /\ Len(cs.chunks[j]) > 2000
       /\ Len(cs.prompts[j]) = 2000

\* s holds sub as a run of consecutive elements
Contains(s, sub) ==
  \E p \in 0..(Len(s) - Len(sub)) : SubSeq(s, p + 1, p + Len(sub)) = sub

\* C21: a call of getEmbedding that the service answers with a non-success
\* status ends by throwing an error whose message holds both the status and
\* the body of the response, returns no vector, and has sent one request.
CeC21 ==
  (ec.stage = "end" /\ ec.status # 0 /\ ~ResponseOk(ec.status))
    => /\ ec.outcome = "thrown"
       /\ Contains(ec.message, Decimal(ec.status))
       /\ Contains(ec.message, ec.body)
       /\ ec.requests = 1

\* C22: getting the collection is an idempotent get-or-create: as long as no
\* call hits a fault, createCollection is called only while the store does
\* not hold the collection, and a run over an existing directory does not
\* end in the error handler, whether the store held the collection when the
\* run started or not.
CeC22 ==
  ~faulted =>
    /\ mpc = "createCollection" => ~collExists
    /\ dirExists => mpc # "error"

\* the run ended on a set-up error: the source directory is absent, or the
\* run ended in the error handler, which only a failure to get or create
\* the collection or to list the directory leads to
SetupError == Ended /\ (~dirExists \/ mpc = "error")

\* C23: a run that ended on a set-up error has not reported completion, has
\* started no document, has requested no embedding and has written nothing
\* to the collection.
CeC23 ==
  SetupError =>
    /\ mpc \in {"error", "returned"}
    /\ \A k \in DOMAIN task : task[k].pc = "idle" /\ trace[k] = <<>>
    /\ coll = {}

\* the awaits of vectorizeFiles that are requests to the vector store or to
\* the embedding service
NetworkAwaits == {"heartbeat", "getCollection", "createCollection",
                  "testEmbed", "testAdd", "testCount", "sampleQuery"}

\* C24: in a run over a directory that holds no .txt file, vectorizeFiles
\* never waits for an answer of the vector store or of the embedding
\* service, and the run does not end as completed.
CeC24 ==
  (dirExists /\ NFiles = 0) =>
    /\ mpc \notin NetworkAwaits
    /\ mpc # "done"

\* C25: all the embeddings of the collection have the same length, and an
\* embedding the store refuses for its length ends the run at once: when no
\* call hit a fault, a refused add is the last call of its document, no
\* other document goes on, no failure is counted for a later report and the
\* run is in its error handler.
CeC25 ==
  /\ \A x \in coll, y \in coll : x.dim = y.dim
  /\ ~faulted =>
       \A k \in DOMAIN trace :
         Pos(trace[k], "addFail") # {} =>
           /\ Pos(trace[k], "addFail") = {Len(trace[k])}
           /\ task[k].failed = 0
           /\ Active = {}
           /\ mpc = "error"

\* a file name without the extension it ends in
Stem(f) == IF IsTxt(f) THEN SubSeq(f, 1, Len(f) - Len(TxtExt)) ELSE f

\* the entries of the collection that are chunks of the bulletins
ChunkEntries == {e \in coll : e.doc[1] \in DOMAIN txtFiles}

\* C30: the source of every chunk in the collection is the name of its file
\* without the extension, and the id of the chunk starts with it.
CeC30 ==
  \A e \in ChunkEntries :
    /\ e.source = Stem(txtFiles[e.doc[1]])
    /\ SubSeq(e.id, 1, Len(e.source)) = e.source

\* a request to POST of app/api/search has been answered
Answered == sr.endpoint = "search" /\ sr.stage = "end"

\* the body of the request holds a query that is a string with a character
\* that is no white space
GoodInput ==
  /\ sr.body.kind = "object"
  /\ sr.body.query.type = "string"
  /\ Trim(sr.body.query.text) # <<>>

\* the store was not reached by the last query sent
Unreachable ==
  /\ sr.queries > 0
  /\ Len(sr.errors) = sr.queries
  /\ sr.errors[Len(sr.errors)].code \in {"ECONNREFUSED", "ENOTFOUND"}

\* C26: the status of the response of the search endpoint is 400 when the
\* input is bad, and for good input 503 when the last query did not reach
\* the store, 200 together with a list of results when a query was
\* answered, and 500 for every other failure.
CeC26 ==
  Answered =>
    /\ ~GoodInput => sr.response.status = 400
    /\ GoodInput =>
         /\ sr.response.status \in {200, 500, 503}
         /\ sr.response.status = 503 <=> Unreachable
         /\ sr.response.status = 200 <=> Len(sr.errors) < sr.queries
    /\ sr.response.status = 200 => sr.response.kind = "results"

\* the query of the request is missing, empty or only white space
BlankQuery ==
  /\ sr.endpoint \in {"search", "query"}
  /\ sr.body.kind = "object"
  /\ \/ sr.body.query.type = "undefined"
     \/ sr.body.query.type = "string" /\ Trim(sr.body.query.text) = <<>>

\* C27: for a request whose query is missing, empty or only white space,
\* neither endpoint ever calls the store or a model service, and the
\* request is answered with status 400.
CeC27 ==
  BlankQuery =>
    /\ sr.calls = 0
    /\ sr.queries = 0
    /\ sr.stage = "end" => sr.response.status = 400

\* a query of the search endpoint or of searchBulletins was answered by the
\* store, and its results have been returned or printed
Found ==
  /\ sr.endpoint \in {"search", "cli"}
  /\ sr.stage = "end"
  /\ sr.queries > 0
  /\ Len(sr.errors) < sr.queries

\* the metadata of a result: the one the store returned, the empty object
\* when it returned none
Attached(metadata) ==
  IF sr.endpoint = "search" /\ metadata = "null" THEN "{}" ELSE metadata

Leaks(message, error) ==
  \/ Contains(message, <<error.message>>)
  \/ error.data # "none" /\ Contains(message, <<error.data>>)

\* C29: an error response of the search endpoint holds nothing of the
\* errors its calls ended with: neither the message of such an error nor
\* the payload of an error response of the store.
CeC29 ==
  (Answered /\ sr.response.kind = "error") =>
    \A n \in DOMAIN sr.errors : ~Leaks(sr.response.message, sr.errors[n])

\* processFile has been called for file k
Started(k) == task[k].pc # "idle"

\* C31: a document that splits into no chunk is no error: processFile
\* returns for it at once with 0 successful and 0 failed, having made no
\* embedding call and no store call, and the run goes on: when it completes,
\* every document due has been processed.
ThC31 ==
  /\ \A k \in DOMAIN task :
       (NChunks(k) = 0 /\ Started(k)) =>
         /\ task[k].pc = "done"
         /\ task[k].successful = 0
         /\ task[k].failed = 0
         /\ trace[k] = <<>>
  /\ RunComplete => \A k \in Due : task[k].pc = "done"

WitC31 ==
  /\ mpc = "done"
  /\ \E k \in DOMAIN task, k2 \in DOMAIN task :
       /\ k < k2
       /\ NChunks(k) = 0
       /\ Started(k)
       /\ Pos(trace[k2], "addOk") # {}

\* the query strategies of the search endpoint, in the order of the code
Strategies == <<"query_texts", "query_embeddings">>

\* C32: the search endpoint sends its store queries in the order text
\* query, embedding query, every one but the first after the one before it
\* has failed, so never more than two; and a success response holds the
\* results the store returned to the last query sent, the only one that
\* did not fail.
ThC32 ==
  sr.endpoint = "search" =>
    /\ sr.queries = Len(sr.sent)
    /\ Len(sr.sent) <= Len(Strategies)
    /\ sr.sent = SubSeq(Strategies, 1, Len(sr.sent))
    /\ Len(sr.errors) >= Len(sr.sent) - 1
    /\ \A n \in 1..(Len(sr.sent) - 1) : sr.errors[n] \in Faults
    /\ sr.response.status = 200 =>
         /\ Len(sr.errors) = Len(sr.sent) - 1
         /\ sr.returned = (IF Len(sr.sent) = 1 THEN sr.rows
                           ELSE Nearest(sr.rows, sr.embedding))
         /\ sr.response.results = processResults(QueryResponse(sr.returned))

WitC32 ==
  /\ Answered
  /\ sr.sent = Strategies
  /\ sr.response.status = 200
  /\ sr.embedding = "v"
  /\ Len(sr.rows) = 2
  /\ sr.rows[1] # sr.rows[2]

\* the chunks of file k for which the trace holds an event of the kind
Chunks(k, kind) == {trace[k][n][2] : n \in Pos(trace[k], kind)}

\* C33: when processFile has returned, successful + failed is the number of
\* chunks of the document, every chunk was either written or failed and
\* none both, successful is the number of store writes that completed and
\* failed the number of calls that failed; and in the semantic run
\* totalSuccessful + totalFailed = totalChunks whenever the batch loop waits
\* or has ended.
ThC33 ==
  /\ \A k \in DOMAIN task :
       task[k].pc = "done" =>
         /\ task[k].successful + task[k].failed = NChunks(k)
         /\ Chunks(k, "addOk") \cup Chunks(k, "embedFail") \cup Chunks(k, "addFail")
              = 0..(NChunks(k) - 1)
         /\ task[k].successful = Cardinality(Pos(trace[k], "addOk"))
         /\ task[k].failed = Cardinality(Fails(trace[k]))
         /\ Cardinality(Pos(trace[k], "addOk")) + Cardinality(Fails(trace[k]))
              = NChunks(k)
  /\ (script = "semantic" /\ mpc \in {"await", "sampleQuery", "done"})
       => totalSuccessful + totalFailed = totalChunks

WitC33 ==
  /\ script = "semantic"
  /\ mpc = "done"
  /\ totalSuccessful = 1
  /\ totalFailed = 2
  /\ \E k \in DOMAIN task : task[k].successful = 1 /\ task[k].failed = 1

\* the groups a run over the listed files hands out
Groups == (NFiles + CONCURRENT_FILES - 1) \div CONCURRENT_FILES

\* C34: processFile never rejects: for a file that cannot be read it
\* returns 0 successful and 0 failed without any call, the run never lands
\* in its error handler once a document was started, and a completed run
\* has handed out every group and finished every document due, the readable
\* ones with all their chunks attempted.
ThC34 ==
  /\ \A k \in DOMAIN task :
       /\ task[k].pc \in {"idle", "embed", "add", "delay", "done"}
       /\ (content[k] = Unreadable /\ Started(k)) =>
            /\ task[k].pc = "done"
            /\ task[k].successful = 0
            /\ task[k].failed = 0
            /\ trace[k] = <<>>
  /\ (\E k \in DOMAIN task : Started(k)) => mpc \notin {"error", "returned"}
  /\ RunComplete =>
       /\ script # "fresh" => Len(batches) = Groups
       /\ \A k \in Due :
            /\ task[k].pc = "done"
            /\ Cardinality(Pos(trace[k], "embed")) = NChunks(k)

WitC34 ==
  /\ mpc = "done"
  /\ NFiles = CONCURRENT_FILES + 1
  /\ content[1] = Unreadable
  /\ Pos(trace[2], "addOk") # {}
  /\ Pos(trace[NFiles], "addOk") # {}

\* the second of two requests with the same body has been answered, and its
\* store queries ended as those of the first did
SameBehaviour ==
  /\ Answered
  /\ sr.round = 2
  /\ sr.errors = sr.first.errors

\* C35: two requests to the search endpoint with the same query, against
\* the same store and with the same store queries failing in the same way,
\* get the same status and the same list of results.
CeC35 ==
  SameBehaviour =>
    /\ sr.response.status = sr.first.response.status
    /\ sr.response.results = sr.first.response.results

\* the completion report of vectorizeFiles has been printed
Reported == script \in {"optimized", "semantic"} /\ RunComplete

\* the batch loop has handed out every group and every document has
\* returned with all its chunks attempted
AllProcessed ==
  /\ Len(batches) = Groups
  /\ \A k \in DOMAIN task : task[k].pc = "done" /\ task[k].i = NChunks(k)

\* the run of a chunking function, or of the script, that is meant
Chunking == cs.kind \in {"stride", "exec"}

Running == cs.kind = "none" /\ script \in {"optimized", "semantic"}

\* C36 as stated: every chunking loop terminates and every run of
\* vectorizeFiles reaches its completion report with every group processed.
CeC36 ==
  /\ Chunking ~> cs.stage = "returned"
  /\ Running ~> (Reported /\ AllProcessed)

\* the set-up of the run failed: the collection could not be created or the
\* directory could not be listed, and no group was handed out
SetupFailed == mpc = "error" /\ batches = <<>>

\* C36: every chunking loop terminates, with the chunks of
\* splitIntoChunks and of the while loop of splitIntoSemanticChunks; every
\* run of vectorizeFiles ends, either on a set-up failure before any group
\* or with its completion report and every group processed; and a run that
\* has entered the batch loop reaches the completion report whatever its
\* chunks do.
ThC36 ==
  /\ Chunking ~> cs.stage = "returned"
  /\ [](Chunking /\ cs.stage = "returned" =>
          cs.chunks = IF cs.kind = "stride"
                      THEN splitIntoChunks(cs.text, cs.chunkSize)
                      ELSE SemanticRun(cs.text).proposed)
  /\ Running ~> (SetupFailed \/ (Reported /\ AllProcessed))
  /\ (Running /\ mpc = "await") ~> (Reported /\ AllProcessed)
  /\ cs.kind = "none" ~> Ended

\* a run of two groups with a failed and a stored chunk has reported
\* completion
WitC36 ==
  /\ Reported /\ AllProcessed
  /\ Len(batches) >= 2
  /\ \E k \in DOMAIN task : task[k].failed > 0
  /\ \E k \in DOMAIN task : task[k].successful > 0

====
